---- MODULE Spec2Model ----
(***************************************************************************)
(* A model of the eson schema normaliser: the FD store and its closure,    *)
(* the IND store and its closure, BCNF decomposition (normalize) and       *)
(* IND-driven subsumption (subsume).                                        *)
(*                                                                         *)
(* Names (FieldName, TableName) are strings; they are modelled as          *)
(* sequences of character codes so that concatenation ("_base", "_ext",    *)
(* "_", numeric suffixes) and the lexicographic order used by sort() and   *)
(* by the merge stage are computed, not assumed.                           *)
(*                                                                         *)
(* Iteration over a HashMap has no specified order.  Wherever the code     *)
(* iterates over one and the order can change the outcome, the operator    *)
(* returns the SET of outcomes over the possible orders and the action     *)
(* picks one of them.                                                      *)
(***************************************************************************)
EXTENDS Integers, Sequences, FiniteSets, TLC

VARIABLES tables, inds, pc, todo, changed, any_changed, last, budget

vars == <<tables, inds, pc, todo, changed, any_changed, last, budget>>

-----------------------------------------------------------------------------
(* Names *)

\* lexicographic order on names (Ord for Symbol follows the string)
RECURSIVE NameLess(_, _)
NameLess(s, t) ==
  IF t = <<>> THEN FALSE
  ELSE IF s = <<>> THEN TRUE
  ELSE IF Head(s) < Head(t) THEN TRUE
  ELSE IF Head(s) > Head(t) THEN FALSE
  ELSE NameLess(Tail(s), Tail(t))

NameLeq(s, t) == s = t \/ NameLess(s, t)

MinName(S) == CHOOSE m \in S : \A o \in S : NameLeq(m, o)

\* a set of names as the sorted vector (sort + dedup)
RECURSIVE SortedVec(_)
SortedVec(S) ==
  IF S = {} THEN <<>>
  ELSE LET m == MinName(S) IN <<m>> \o SortedVec(S \ {m})

Range(s) == {s[i] : i \in DOMAIN s}

NoDup(s) == \A i, j \in DOMAIN s : i # j => s[i] # s[j]

Contains(s, e) == \E i \in DOMAIN s : s[i] = e

\* position of the first occurrence of e in s (0 when absent)
Position(s, e) ==
  IF Contains(s, e) THEN CHOOSE i \in DOMAIN s : s[i] = e /\ \A j \in 1..(i - 1) : s[j] # e
  ELSE 0

\* the subsequence of s at the positions that satisfy Keep
RECURSIVE SelectIdx(_, _, _)
SelectIdx(s, keepSet, i) ==
  IF i > Len(s) THEN <<>>
  ELSE (IF i \in keepSet THEN <<s[i]>> ELSE <<>>) \o SelectIdx(s, keepSet, i + 1)

\* permutation::sort : the indices of s in ascending (stable) order of s
RECURSIVE SortPermFrom(_, _)
SortPermFrom(s, rest) ==
  IF rest = {} THEN <<>>
  ELSE LET i == CHOOSE a \in rest : \A b \in rest :
                   \/ NameLess(s[a], s[b])
                   \/ (s[a] = s[b] /\ a <= b)
       IN <<i>> \o SortPermFrom(s, rest \ {i})

SortPerm(s) == SortPermFrom(s, DOMAIN s)

\* permutation.apply_slice
ApplyPerm(p, s) == [i \in DOMAIN p |-> s[p[i]]]

\* "_base", "_ext", "_" and the decimal digits
SuffixBase == <<95, 98, 97, 115, 101>>
SuffixExt == <<95, 101, 120, 116>>
Underscore == <<95>>

\* format!("{}", n) for a small positive integer
RECURSIVE Decimal(_)
Decimal(n) == IF n < 10 THEN <<48 + n>> ELSE Decimal(n \div 10) \o <<48 + (n % 10)>>

-----------------------------------------------------------------------------
(* Tables: [fields : Seq([name, key]), fds : key vector -> [lhs, rhs]] *)

FieldNames(t) == {t.fields[i].name : i \in DOMAIN t.fields}

HasField(t, f) == f \in FieldNames(t)

key_fields(t) == {t.fields[i].name : i \in {j \in DOMAIN t.fields : t.fields[j].key}}

NonKeyFields(t) == FieldNames(t) \ key_fields(t)

FieldOf(t, f) == t.fields[CHOOSE i \in DOMAIN t.fields : t.fields[i].name = f]

is_superkey(t, fs) == key_fields(t) \subseteq fs

is_trivial(fd) == fd.rhs \subseteq fd.lhs

FdValues(m) == {m[k] : k \in DOMAIN m}

\* HashMap::insert
MapPut(m, k, v) == [x \in (DOMAIN m) \cup {k} |-> IF x = k THEN v ELSE m[x]]

MapDel(m, k) == [x \in (DOMAIN m) \ {k} |-> m[x]]

EmptyMap == [x \in {} |-> x]

-----------------------------------------------------------------------------
(* FD closure (dependencies.rs) *)

\* a pass that pushes fd2's rhs alone, not merged with the rhs stored for fd1
ProposalsReplace(m) ==
  {[key |-> SortedVec(m[q[1]].lhs),
    fd |-> [lhs |-> m[q[1]].lhs, rhs |-> m[q[2]].rhs \ m[q[1]].lhs]] :
     q \in {q \in (DOMAIN m) \X (DOMAIN m) :
              /\ m[q[1]] # m[q[2]]
              /\ m[q[2]].lhs \subseteq m[q[1]].rhs
              /\ ~((m[q[2]].rhs \ m[q[1]].lhs) \subseteq m[q[1]].rhs)}}

\* One pass of the closure loop: the FDs pushed on new_fds, each with the key
\* (the sorted lhs of fd1) under which it will be inserted.
Proposals(m) ==
  LET NewFd(fd1, fd2) ==
        LET lhs_copy == SortedVec(fd1.lhs) IN
        IF lhs_copy \in DOMAIN m
        THEN [lhs |-> fd1.lhs, rhs |-> (m[lhs_copy].rhs \cup fd2.rhs) \ fd1.lhs]
        ELSE [lhs |-> fd1.lhs, rhs |-> fd2.rhs \ fd1.lhs]
      Pushed(fd1, fd2) ==
        LET lhs_copy == SortedVec(fd1.lhs) IN
        \/ lhs_copy \notin DOMAIN m
        \/ ~(NewFd(fd1, fd2).rhs \subseteq m[lhs_copy].rhs)
  IN {[key |-> SortedVec(m[k1].lhs), fd |-> NewFd(m[k1], m[k2])] :
        <<k1, k2>> \in {q \in (DOMAIN m) \X (DOMAIN m) :
                          /\ m[q[1]] # m[q[2]]
                          /\ m[q[2]].lhs \subseteq m[q[1]].rhs
                          /\ Pushed(m[q[1]], m[q[2]])}}

\* new_fds is inserted in iteration order and a later FD replaces an earlier
\* one with the same key: each key ends with one of the FDs pushed for it.
RECURSIVE InsertNewFds(_, _, _)
InsertNewFds(m, props, keys) ==
  IF keys = {} THEN {m}
  ELSE LET k == CHOOSE x \in keys : TRUE IN
       UNION {InsertNewFds(MapPut(m, k, p.fd), props, keys \ {k}) :
                p \in {q \in props : q.key = k}}

ClosurePass(m) == InsertNewFds(m, Proposals(m), {p.key : p \in Proposals(m)})

\* closure(): the possible final maps; it returns true iff a pass inserted
RECURSIVE closure(_)
closure(m) ==
  IF Proposals(m) = {} THEN {m}
  ELSE UNION {closure(m2) : m2 \in ClosurePass(m)}

closure_returns(m) == Proposals(m) # {}

-----------------------------------------------------------------------------
(* Table operations (model.rs) *)

\* add_fd without the merge: the FD stored under the key is replaced
add_fd_replace(t, lhs, rhs) ==
  {[t EXCEPT !.fds = c] :
     c \in closure(MapPut(t.fds, SortedVec(lhs), [lhs |-> lhs, rhs |-> rhs]))}

\* add_fd(lhs, rhs); the vectors are given as sets (lhs is sorted and
\* de-duplicated, rhs is collected into a HashSet)
add_fd(t, lhs, rhs) ==
  LET key == SortedVec(lhs)
      rhs2 == IF key \in DOMAIN t.fds THEN rhs \cup t.fds[key].rhs ELSE rhs
      m == MapPut(MapDel(t.fds, key), key, [lhs |-> lhs, rhs |-> rhs2])
  IN {[t EXCEPT !.fds = c] : c \in closure(m)}

add_pk_fd(t) ==
  IF key_fields(t) # {} /\ NonKeyFields(t) # {}
  THEN add_fd(t, key_fields(t), NonKeyFields(t))
  ELSE {t}

\* a list of add_fd calls made while iterating over a HashMap: every order
RECURSIVE AddFdsAnyOrder(_, _, _)
AddFdsAnyOrder(layer, items, n) ==
  IF n = 0 THEN {s.t : s \in layer}
  ELSE AddFdsAnyOrder(
         UNION {UNION {{[t |-> r, done |-> s.done \cup {it}] :
                          r \in add_fd(s.t, it.lhs, it.rhs)} :
                       it \in items \ s.done} : s \in layer},
         items, n - 1)

\* the keys of the FDs A -> B that minimize_fds is meant to find: B -> A is
\* stored as well and |A| > |B|
Reversed(t) ==
  {k \in DOMAIN t.fds :
     LET rk == SortedVec(t.fds[k].rhs) IN
     /\ rk \in DOMAIN t.fds
     /\ t.fds[rk] = [lhs |-> t.fds[k].rhs, rhs |-> t.fds[k].lhs]
     /\ Cardinality(t.fds[k].lhs) > Cardinality(t.fds[k].rhs)}

\* Table::minimize_fds.  The key looked up for the reverse FD is the rhs
\* collected into a Vec in the iteration order of the HashSet, while the map
\* is keyed by sorted vectors: the lookup finds the reverse FD for certain
\* when the rhs has one field, and otherwise only when the HashSet happens to
\* iterate in sorted order
minimize_fds(t) ==
  LET sure == {k \in Reversed(t) : Cardinality(t.fds[k].rhs) = 1}
  IN {[t EXCEPT !.fds = [k \in (DOMAIN t.fds) \ (sure \cup lucky) |-> t.fds[k]]] :
        lucky \in SUBSET (Reversed(t) \ sure)}

\* a copy of the FDs of other as they are, whatever fields the table has
table_copy_fds_unfiltered(t, other) ==
  LET items == {[id |-> k, lhs |-> other.fds[k].lhs, rhs |-> other.fds[k].rhs] :
                  k \in DOMAIN other.fds}
  IN AddFdsAnyOrder({[t |-> t, done |-> {}]}, items, Cardinality(items))

\* Table::copy_fds(other)
table_copy_fds(t, other) ==
  LET items == {[id |-> k,
                 lhs |-> other.fds[k].lhs \cap FieldNames(t),
                 rhs |-> other.fds[k].rhs \cap FieldNames(t)] : k \in DOMAIN other.fds}
      live == {it \in items : it.lhs # {} /\ it.rhs # {}}
  IN AddFdsAnyOrder({[t |-> t, done |-> {}]}, live, Cardinality(live))

contains_fd(t, fd) ==
  LET key == SortedVec(fd.lhs) IN
  key \in DOMAIN t.fds /\ fd.rhs \subseteq t.fds[key].rhs

\* the FDs that violate BCNF; violating_fd(false, _) is the first one met
Violators(t) == {fd \in FdValues(t.fds) : ~is_trivial(fd) /\ ~is_superkey(t, fd.lhs)}

is_bcnf(t) == Violators(t) = {}

prune_fds(t) ==
  LET cut == [k \in DOMAIN t.fds |->
                [lhs |-> t.fds[k].lhs \cap FieldNames(t),
                 rhs |-> t.fds[k].rhs \cap FieldNames(t)]]
      keep == {k \in DOMAIN cut : cut[k].lhs # {} /\ cut[k].rhs # {}}
  IN [t EXCEPT !.fds = [k \in keep |-> cut[k]]]

-----------------------------------------------------------------------------
(* INDs (dependencies.rs, model.rs) *)

Ind(lt, lf, rt, rf) ==
  [left_table |-> lt, left_fields |-> lf, right_table |-> rt, right_fields |-> rf]

\* the positional (left field, right field) pairs of an IND
Pairs(i) ==
  {<<i.left_fields[p], i.right_fields[p]>> :
     p \in (DOMAIN i.left_fields) \cap (DOMAIN i.right_fields)}

\* IND::is_subset
is_subset(a, b) ==
  /\ a.left_table = b.left_table
  /\ a.right_table = b.right_table
  /\ \A p \in DOMAIN a.left_fields : \E q \in DOMAIN b.left_fields :
       a.left_fields[p] = b.left_fields[q] /\ a.right_fields[p] = b.right_fields[q]

\* IND::reverse
\* a reversal that swaps the sides and leaves the lists as they are
reverse_unsorted(i) ==
  Ind(i.right_table, i.right_fields, i.left_table, i.left_fields)

reverse(i) ==
  LET p == SortPerm(i.right_fields) IN
  Ind(i.right_table, ApplyPerm(p, i.right_fields), i.left_table, ApplyPerm(p, i.left_fields))

Bucket(is, k) == IF k \in DOMAIN is THEN is[k] ELSE <<>>

\* buckets without INDs are not represented
DropEmpty(is) == [k \in {x \in DOMAIN is : is[x] # <<>>} |-> is[k]]

AllInds(is) == UNION {Range(is[k]) : k \in DOMAIN is}

\* Schema::add_ind
add_ind_returns(is, i) ==
  ~\E j \in Range(Bucket(is, <<i.left_table, i.right_table>>)) : is_subset(i, j)

\* an add_ind that pushes the IND whatever the bucket holds
add_ind_always(is, i) ==
  MapPut(is, <<i.left_table, i.right_table>>,
         Append(Bucket(is, <<i.left_table, i.right_table>>), i))

add_ind(is, i) ==
  LET k == <<i.left_table, i.right_table>> IN
  IF add_ind_returns(is, i) THEN MapPut(is, k, Append(Bucket(is, k), i)) ELSE is

\* Schema::contains_ind
contains_ind(is, i) == \E j \in AllInds(is) : is_subset(i, j)

\* a list of add_ind calls built while iterating over the buckets: every order
RECURSIVE AddIndsAnyOrder(_, _, _)
AddIndsAnyOrder(layer, items, n) ==
  IF n = 0 THEN {s.is : s \in layer}
  ELSE AddIndsAnyOrder(
         UNION {{[is |-> add_ind(s.is, it), done |-> s.done \cup {it}] :
                   it \in items \ s.done} : s \in layer},
         items, n - 1)

\* a pruning that looks at the left-hand fields only
PruneIndLeftOnly(ts, i) ==
  LET keep == {p \in DOMAIN i.left_fields : HasField(ts[i.left_table], i.left_fields[p])}
  IN Ind(i.left_table, SelectIdx(i.left_fields, keep, 1),
         i.right_table, SelectIdx(i.right_fields, keep, 1))

\* Schema::prune_inds
PruneInd(ts, i) ==
  LET keep == {p \in DOMAIN i.left_fields :
                 /\ HasField(ts[i.left_table], i.left_fields[p])
                 /\ p \in DOMAIN i.right_fields
                 /\ HasField(ts[i.right_table], i.right_fields[p])}
  IN Ind(i.left_table, SelectIdx(i.left_fields, keep, 1),
         i.right_table, SelectIdx(i.right_fields, keep, 1))

\* a pruning that keeps the INDs left without any position
RECURSIVE PruneBucketKeepEmpty(_, _)
PruneBucketKeepEmpty(ts, b) ==
  IF b = <<>> THEN <<>>
  ELSE <<PruneInd(ts, Head(b))>> \o PruneBucketKeepEmpty(ts, Tail(b))

RECURSIVE PruneBucket(_, _)
PruneBucket(ts, b) ==
  IF b = <<>> THEN <<>>
  ELSE LET i == PruneInd(ts, Head(b)) IN
       (IF i.left_fields # <<>> /\ i.right_fields # <<>> THEN <<i>> ELSE <<>>)
         \o PruneBucket(ts, Tail(b))

prune_inds(ts, is) ==
  LET live == {k \in DOMAIN is : k[1] \in DOMAIN ts /\ k[2] \in DOMAIN ts} IN
  DropEmpty([k \in live |-> PruneBucket(ts, is[k])])

\* a copy_inds that copies the INDs with src on their left side only
copy_inds_left_only(ts, is, src, dst) ==
  LET d == ts[dst]
      new_inds == {Ind(dst, i.left_fields, i.right_table, i.right_fields) :
                     i \in {j \in AllInds(is) :
                              /\ j.left_table = src
                              /\ Range(j.left_fields) \cap FieldNames(d) # {}}}
  IN {prune_inds(ts, r) :
        r \in AddIndsAnyOrder({[is |-> is, done |-> {}]}, new_inds, Cardinality(new_inds))}

\* Schema::copy_inds(src, dst)
copy_inds(ts, is, src, dst) ==
  LET d == ts[dst]
      fromLeft == {Ind(dst, i.left_fields, i.right_table, i.right_fields) :
                     i \in {j \in AllInds(is) :
                              /\ j.left_table = src
                              /\ Range(j.left_fields) \cap FieldNames(d) # {}}}
      fromRight == {Ind(i.left_table, i.left_fields, dst, i.right_fields) :
                      i \in {j \in AllInds(is) :
                               /\ j.right_table = src
                               /\ Range(j.right_fields) \cap FieldNames(d) # {}}}
      new_inds == fromLeft \cup fromRight
  IN {prune_inds(ts, r) :
        r \in AddIndsAnyOrder({[is |-> is, done |-> {}]}, new_inds, Cardinality(new_inds))}

\* the elements of the sequence b that are in the set keep, in their order
RECURSIVE RetainSeq(_, _)
RetainSeq(b, keep) ==
  IF b = <<>> THEN <<>>
  ELSE (IF Head(b) \in keep THEN <<Head(b)>> ELSE <<>>) \o RetainSeq(Tail(b), keep)

\* a test that looks at the key of the FD only
fk_test_key_only(t, i) == i.left_fields \in DOMAIN t.fds

\* the test of retain_fk_inds on an IND whose right table is t: the FD
\* stored in t under the key ind.left_fields has all of ind.right_fields in
\* its rhs
fk_test(t, i) ==
  IF i.left_fields \in DOMAIN t.fds
  THEN Range(i.right_fields) \subseteq t.fds[i.left_fields].rhs
  ELSE FALSE

\* Schema::retain_fk_inds, on buckets whose right table exists
retain_fk_inds(ts, is) ==
  DropEmpty([k \in DOMAIN is |->
               RetainSeq(is[k], {i \in Range(is[k]) : fk_test(ts[k[2]], i)})])

-----------------------------------------------------------------------------
(* normalize (normalize.rs) *)

\* the fields of fs whose names are in keep, in their order (into_iter().filter)
FilterFields(fs, keep) ==
  SelectIdx(fs, {i \in DOMAIN fs : fs[i].name \in keep}, 1)

\* decomposed_tables, given the violating FD that violating_fd returned:
\* the possible pairs (t1, t2), named <name>_base and <name>_ext
t1_fields(t, vfd) ==
  LET sel == FilterFields(t.fields, FieldNames(t) \ vfd.rhs) IN
  [i \in DOMAIN sel |->
     [name |-> sel[i].name,
      key |-> IF sel[i].key /\ sel[i].name \in vfd.rhs THEN FALSE ELSE sel[i].key]]

\* a second product that has the fields of the lhs only
t2_fields_lhs_only(t, vfd) ==
  LET sel == FilterFields(t.fields, vfd.lhs) IN
  [i \in DOMAIN sel |-> [name |-> sel[i].name, key |-> TRUE]]

t2_fields(t, vfd) ==
  LET sel == FilterFields(t.fields, vfd.lhs \cup vfd.rhs) IN
  [i \in DOMAIN sel |->
     [name |-> sel[i].name,
      key |-> IF ~sel[i].key /\ sel[i].name \in vfd.lhs THEN TRUE
              ELSE IF sel[i].key /\ sel[i].name \notin vfd.lhs THEN FALSE
              ELSE sel[i].key]]

decomposed_tables(t, vfd) ==
  LET b1 == [fields |-> t1_fields(t, vfd), fds |-> EmptyMap]
      b2 == [fields |-> t2_fields(t, vfd), fds |-> EmptyMap]
      T1 == UNION {table_copy_fds(p, t) : p \in add_pk_fd(b1)}
      T2 == UNION {table_copy_fds(p, t) : p \in add_pk_fd(b2)}
  IN T1 \X T2

\* the body of the for loop of normalize for a table that is not in BCNF:
\* the possible schemas [tables, inds] after the decomposition on vfd
Decompose(ts, is, table_name, vfd) ==
  LET t1_name == table_name \o SuffixBase
      t2_name == table_name \o SuffixExt
      After(t1, t2) ==
        LET ind_fields == SortedVec(key_fields(t1) \cup key_fields(t2))
            ind == Ind(t1_name, ind_fields, t2_name, ind_fields)
            is1 == add_ind(add_ind(is, reverse(ind)), ind)
            ts1 == MapPut(MapPut(ts, t1_name, t1), t2_name, t2)
            ts2 == MapDel(ts1, table_name)
        IN {[tables |-> ts2, inds |-> prune_inds(ts2, is3)] :
              is3 \in UNION {copy_inds(ts1, is2, table_name, t2_name) :
                               is2 \in copy_inds(ts1, is1, table_name, t1_name)}}
  IN UNION {After(d[1], d[2]) : d \in decomposed_tables(ts[table_name], vfd)}

-----------------------------------------------------------------------------
(* subsume, stage 1: field removal (normalize.rs) *)

\* remove_fields computed from every FD of the right table, whether or not
\* the IND lists its left-hand side
remove_fields_any_fd(ts, i) ==
  IF i.left_table = i.right_table THEN {}
  ELSE LET right_table == ts[i.right_table]
           left_table == ts[i.left_table]
           rf == Range(i.right_fields)
       IN IF ~(key_fields(right_table) \subseteq rf) THEN {}
          ELSE LET fd_fields == {i.left_fields[Position(i.right_fields, f)] :
                                   f \in (UNION {fd.rhs : fd \in FdValues(right_table.fds)}) \cap rf}
               IN {f \in Range(i.left_fields) : f \in fd_fields /\ HasField(left_table, f)}

\* the fields the loop body finds removable for one IND (remove_fields)
remove_fields(ts, i) ==
  IF i.left_table = i.right_table THEN {}
  ELSE LET right_table == ts[i.right_table]
           left_table == ts[i.left_table]
           rf == Range(i.right_fields)
       IN IF ~(key_fields(right_table) \subseteq rf) THEN {}
          ELSE LET fds == {fd \in FdValues(right_table.fds) : fd.lhs \subseteq rf}
                   fd_fields == {i.left_fields[Position(i.right_fields, f)] :
                                   f \in (UNION {fd.rhs : fd \in fds}) \cap rf}
               IN {f \in Range(i.left_fields) : f \in fd_fields /\ HasField(left_table, f)}

\* the inner for loop breaks at the first IND of a bucket with removable fields
RECURSIVE FirstRemovable(_, _)
FirstRemovable(ts, b) ==
  IF b = <<>> THEN <<>>
  ELSE IF remove_fields(ts, Head(b)) # {} THEN <<Head(b)>>
  ELSE FirstRemovable(ts, Tail(b))

\* to_remove is overwritten by every bucket that has a removable IND: the
\* bucket visited last decides, and any of them can be visited last
ToRemove(ts, is) ==
  {FirstRemovable(ts, is[k])[1] : k \in {x \in DOMAIN is : FirstRemovable(ts, is[x]) # <<>>}}

\* IndexMap::remove (swap_remove): the last entry takes the removed position
SwapRemove(fs, f) ==
  IF ~\E p \in DOMAIN fs : fs[p].name = f THEN fs
  ELSE LET p == CHOOSE q \in DOMAIN fs : fs[q].name = f
           n == Len(fs)
       IN [q \in 1..(n - 1) |-> IF q = p THEN fs[n] ELSE fs[q]]

RECURSIVE SwapRemoveAll(_, _)
SwapRemoveAll(fs, names) ==
  IF names = <<>> THEN fs
  ELSE SwapRemoveAll(SwapRemove(fs, Head(names)), Tail(names))

\* the removal of one iteration of the stage-1 loop, before prune_inds
RemoveFromTable(ts, i) ==
  LET rem == remove_fields(ts, i)
      vec == SelectIdx(i.left_fields, {p \in DOMAIN i.left_fields : i.left_fields[p] \in rem}, 1)
      t == ts[i.left_table]
      t2 == prune_fds([t EXCEPT !.fields = SwapRemoveAll(t.fields, vec)])
  IN IF t2.fields = <<>> THEN MapDel(ts, i.left_table)
     ELSE MapPut(ts, i.left_table, t2)

-----------------------------------------------------------------------------
(* subsume, stage 2: whole-table subsumption *)

\* remove_tables without the test for the reverse IND
Stage2RemoveNoReverse(ts, is) ==
  {i.left_table : i \in {j \in AllInds(is) :
                           /\ j.left_table # j.right_table
                           /\ FieldNames(ts[j.left_table]) \subseteq Range(j.left_fields)}}

\* remove_tables of stage 2.  A self-IND is looked at only when its table is
\* already in remove_tables, so it never adds a table.
Stage2Remove(ts, is) ==
  {i.left_table : i \in {j \in AllInds(is) :
                           /\ j.left_table # j.right_table
                           /\ FieldNames(ts[j.left_table]) \subseteq Range(j.left_fields)
                           /\ contains_ind(is, reverse(j))}}

\* a removal that leaves every table in place
RemoveTablesNone(ts, names) == ts

RemoveTables(ts, names) == [n \in (DOMAIN ts) \ names |-> ts[n]]

-----------------------------------------------------------------------------
(* subsume, stage 3: equi-key merge *)

KeyPositions(t, fs) == {p \in DOMAIN fs : FieldOf(t, fs[p]).key}

keys_match(ts, i) ==
  LET left_table == ts[i.left_table]
      right_table == ts[i.right_table]
      left_keys == KeyPositions(left_table, i.left_fields)
      right_keys == KeyPositions(right_table, i.right_fields)
  IN /\ left_keys = right_keys
     /\ Cardinality(key_fields(left_table)) = Cardinality(left_keys)
     /\ Cardinality(key_fields(right_table)) = Cardinality(right_keys)

\* a right-hand field that keeps its name whether or not it is taken
FreshNameSame(taken, new_name, suffix) == new_name

\* the while loop that makes the name of a right-hand field unique
RECURSIVE FreshName(_, _, _)
FreshName(taken, new_name, suffix) ==
  IF new_name \notin taken THEN new_name
  ELSE FreshName(taken, new_name \o Decimal(suffix), suffix + 1)

\* new_right_names and the fields of the new table, built field by field
RECURSIVE AddRightFields(_, _, _)
AddRightFields(fs, names, rfs) ==
  IF rfs = <<>> THEN [fields |-> fs, names |-> names]
  ELSE IF Head(rfs).name \in DOMAIN names THEN AddRightFields(fs, names, Tail(rfs))
  ELSE LET n == FreshName({fs[p].name : p \in DOMAIN fs}, Head(rfs).name, 2) IN
       AddRightFields(Append(fs, [name |-> n, key |-> Head(rfs).key]),
                      MapPut(names, Head(rfs).name, n), Tail(rfs))

\* a rename map that aliases no key field of the right table
KeyRenamesNone(ts, i) == EmptyMap

\* new_right_names for the key fields of the right table
KeyRenames(ts, i) ==
  LET right_keys == KeyPositions(ts[i.right_table], i.right_fields)
      left_keys == KeyPositions(ts[i.left_table], i.left_fields)
      lk == SelectIdx(i.left_fields, left_keys, 1)
      rk == SelectIdx(i.right_fields, right_keys, 1)
  IN [f \in Range(rk) |-> lk[CHOOSE p \in DOMAIN rk : rk[p] = f /\ \A q \in DOMAIN rk : rk[q] = f => q <= p]]

RightNames(ts, i) ==
  AddRightFields(ts[i.left_table].fields, KeyRenames(ts, i), ts[i.right_table].fields).names

\* the merged table(s) for an IND that passed the test
MergedTables(ts, i) ==
  LET left_table == ts[i.left_table]
      right_table == ts[i.right_table]
      built == AddRightFields(left_table.fields, KeyRenames(ts, i), right_table.fields)
      nm == built.names
      empty == [fields |-> left_table.fields, fds |-> EmptyMap]
      litems == {[id |-> k, lhs |-> left_table.fds[k].lhs, rhs |-> left_table.fds[k].rhs] :
                   k \in DOMAIN left_table.fds}
      withLeft == AddFdsAnyOrder({[t |-> empty, done |-> {}]}, litems, Cardinality(litems))
      ritems == {[id |-> k,
                  lhs |-> {nm[f] : f \in right_table.fds[k].lhs},
                  rhs |-> {nm[f] : f \in right_table.fds[k].rhs}] : k \in DOMAIN right_table.fds}
      withRight == UNION {AddFdsAnyOrder({[t |-> [fields |-> built.fields, fds |-> w.fds],
                                           done |-> {}]}, ritems, Cardinality(ritems)) :
                            w \in withLeft}
  IN UNION {add_pk_fd(w) : w \in withRight}

MergeName(i) == i.left_table \o Underscore \o i.right_table

MergeTest(ts, is, i) == keys_match(ts, i) /\ contains_ind(is, reverse(i))

\* the scan of one bucket: st = [remove : set of names, new : Seq of [table, name, old1, old2]]
RECURSIVE ScanBucket(_, _, _, _)
ScanBucket(ts, is, b, st) ==
  IF b = <<>> THEN {st}
  ELSE LET i == Head(b) IN
       IF \/ i.left_table \in st.remove
          \/ i.right_table \in st.remove
          \/ ~NameLess(i.left_table, i.right_table)
          \/ ~MergeTest(ts, is, i)
       THEN ScanBucket(ts, is, Tail(b), st)
       ELSE UNION {ScanBucket(ts, is, Tail(b),
                              [remove |-> st.remove \cup {i.left_table, i.right_table},
                               new |-> Append(st.new, [table |-> m, name |-> MergeName(i),
                                                       old1 |-> i.left_table,
                                                       old2 |-> i.right_table])]) :
                     m \in MergedTables(ts, i)}

\* the buckets in which some IND can start a merge; the others change nothing
MergeBuckets(ts, is) ==
  {k \in DOMAIN is : \E i \in Range(is[k]) :
     NameLess(i.left_table, i.right_table) /\ MergeTest(ts, is, i)}

\* the buckets are visited in any order
RECURSIVE ScanBuckets(_, _, _, _)
ScanBuckets(ts, is, rest, sts) ==
  IF rest = {} THEN sts
  ELSE UNION {ScanBuckets(ts, is, rest \ {k},
                          UNION {ScanBucket(ts, is, is[k], st) : st \in sts}) : k \in rest}

\* "Add the new table and copy over INDs"
RECURSIVE InstallNew(_, _)
InstallNew(schemas, new) ==
  IF new = <<>> THEN schemas
  ELSE LET n == Head(new)
           Step(sc) ==
             LET ts1 == MapPut(sc.tables, n.name, n.table) IN
             {[tables |-> ts1, inds |-> is2] :
                is2 \in UNION {copy_inds(ts1, is1, n.old2, n.name) :
                                 is1 \in copy_inds(ts1, sc.inds, n.old1, n.name)}}
       IN InstallNew(UNION {Step(sc) : sc \in schemas}, Tail(new))

\* stage 3 as a whole: the possible schemas, each with the tables it merged
Stage3(ts, is) ==
  LET scans == ScanBuckets(ts, is, MergeBuckets(ts, is), {[remove |-> {}, new |-> <<>>]})
      Finish(st) ==
        {LET ts2 == RemoveTables(sc.tables, st.remove) IN
         [tables |-> ts2, inds |-> prune_inds(ts2, sc.inds), merged |-> st.new] :
           sc \in InstallNew({[tables |-> ts, inds |-> is]}, st.new)}
  IN UNION {Finish(st) : st \in scans}

-----------------------------------------------------------------------------
(* IND closure (dependencies.rs) *)

\* all_fields: one pass over the FDs of the left table, in HashMap order,
\* starting from the left fields of ind1.  layer: [seen, all]
RECURSIVE AllFieldsLayers(_, _, _)
AllFieldsLayers(layer, m, n) ==
  IF n = 0 THEN {s.all : s \in layer}
  ELSE AllFieldsLayers(
         UNION {{[seen |-> s.seen \cup {k},
                  all |-> IF m[k].lhs \subseteq s.all THEN s.all \cup m[k].rhs ELSE s.all] :
                   k \in (DOMAIN m) \ s.seen} : s \in layer},
         m, n - 1)

all_fields(t, start) ==
  AllFieldsLayers({[seen |-> {}, all |-> start]}, t.fds, Cardinality(DOMAIN t.fds))

\* ind1.left_fields extended by the fields of ind2 it does not have yet
Extend(a, b) == a \o SelectIdx(b, {p \in DOMAIN b : ~Contains(a, b[p])}, 1)

\* the IND Rule A builds from (ind1, ind2) once the pair passed the FD test
RuleANew(ind1, ind2) ==
  LET new_left == Extend(ind1.left_fields, ind2.left_fields)
      new_right == Extend(ind1.right_fields, ind2.right_fields)
      p == SortPerm(new_left)
  IN Ind(ind1.left_table, ApplyPerm(p, new_left), ind1.right_table, ApplyPerm(p, new_right))

RuleALengthsOk(ind1, ind2) ==
  Len(Extend(ind1.left_fields, ind2.left_fields)) = Len(Extend(ind1.right_fields, ind2.right_fields))

\* the choices of all_fields for the INDs of bucket b, one per position
RECURSIVE AllFieldsChoices(_, _, _)
AllFieldsChoices(ts, b, p) ==
  IF p > Len(b) THEN {<<>>}
  ELSE {<<af>> \o rest :
          af \in all_fields(ts[b[p].left_table], Range(b[p].left_fields)),
          rest \in AllFieldsChoices(ts, b, p + 1)}

\* Rule A on one bucket, for one choice af: the pairs (i, j) that reach the
\* construction of a new IND
RuleAPairs(b, af) ==
  {q \in (DOMAIN b) \X (DOMAIN b) :
     /\ q[1] # q[2]
     /\ ~(Range(Extend(b[q[1]].left_fields, b[q[2]].left_fields)) \subseteq af[q[1]])
     /\ RuleALengthsOk(b[q[1]], b[q[2]])}

PairBefore(q, r) == q[1] < r[1] \/ (q[1] = r[1] /\ q[2] < r[2])

\* the pairs whose IND is staged: not in the bucket, not staged by an earlier pair
RuleAStaged(b, af) ==
  {q \in RuleAPairs(b, af) :
     /\ RuleANew(b[q[1]], b[q[2]]) \notin Range(b)
     /\ ~\E r \in RuleAPairs(b, af) :
          PairBefore(r, q) /\ RuleANew(b[r[1]], b[r[2]]) = RuleANew(b[q[1]], b[q[2]])}

\* the outcomes of Rule A on one bucket: [new, del, panic]
RuleABucket(ts, b) ==
  {[new |-> {RuleANew(b[q[1]], b[q[2]]) : q \in RuleAStaged(b, af)},
    del |-> UNION {{q[1], q[2]} : q \in RuleAStaged(b, af)},
    panic |-> \E q \in RuleAPairs(b, af) : b[q[1]].left_table = b[q[1]].right_table] :
     af \in AllFieldsChoices(ts, b, 1)}

\* a composition of two INDs that meet on their right-hand sides
RuleBReverse(is) ==
  {Ind(q[1].left_table, q[1].left_fields, q[2].left_table, q[2].left_fields) :
     q \in {q \in AllInds(is) \X AllInds(is) :
              /\ q[2].right_table = q[1].right_table
              /\ q[2].right_fields = q[1].right_fields
              /\ q[1].left_table # q[2].left_table}}

\* Rule B: transitivity over the INDs as they are before any deletion
RuleBNew(is) ==
  {Ind(i1.left_table, i1.left_fields, i2.right_table, i2.right_fields) :
     <<i1, i2>> \in {q \in AllInds(is) \X AllInds(is) :
                       /\ q[2].left_table = q[1].right_table
                       /\ q[2].left_fields = q[1].right_fields
                       /\ q[1].left_table # q[2].right_table}}

RuleBStaged(is) ==
  {n \in RuleBNew(is) : n \notin Range(Bucket(is, <<n.left_table, n.right_table>>))}

\* the outcomes of Rule A over all buckets: [new, del : bucket key -> indices, panic]
RECURSIVE RuleAAll(_, _, _, _)
RuleAAll(ts, is, keys, acc) ==
  IF keys = {} THEN acc
  ELSE LET k == CHOOSE x \in keys : TRUE IN
       RuleAAll(ts, is, keys \ {k},
                {[new |-> a.new \cup r.new,
                  del |-> MapPut(a.del, k, r.del),
                  panic |-> a.panic \/ r.panic] : a \in acc, r \in RuleABucket(ts, is[k])})

DeleteIndices(b, del) == SelectIdx(b, (DOMAIN b) \ del, 1)

\* one pass of the loop of ind_closure: the possible [inds, changed, panic].
\* The additions are made by  changed = changed || self.add_ind(new_ind),
\* which stops calling add_ind once changed is true.
IndClosurePass(ts, is) ==
  LET Outcome(a) ==
        LET new_inds == a.new \cup RuleBStaged(is)
            anyDel == \E k \in DOMAIN a.del : a.del[k] # {}
            is1 == DropEmpty([k \in DOMAIN is |-> DeleteIndices(is[k], a.del[k])])
            addable == {n \in new_inds : add_ind_returns(is1, n)}
        IN IF a.panic THEN {[inds |-> is, changed |-> FALSE, panic |-> TRUE]}
           ELSE IF anyDel THEN {[inds |-> is1, changed |-> TRUE, panic |-> FALSE]}
           ELSE IF addable # {}
                THEN {[inds |-> add_ind(is1, n), changed |-> TRUE, panic |-> FALSE] : n \in addable}
                ELSE {[inds |-> is1, changed |-> FALSE, panic |-> FALSE]}
  IN UNION {Outcome(a) :
              a \in RuleAAll(ts, is, DOMAIN is, {[new |-> {}, del |-> EmptyMap, panic |-> FALSE]})}

-----------------------------------------------------------------------------
(* Schema::copy_fds (model.rs) *)

\* new_fds: one entry for every IND and every FD of its right table that
\* passes implies_fd
CopyFdItems(ts, is) ==
  UNION {UNION {{[id |-> <<k, p, fk>>,
                  table |-> is[k][p].left_table,
                  lhs |-> ts[is[k][p].right_table].fds[fk].lhs,
                  rhs |-> ts[is[k][p].right_table].fds[fk].rhs
                            \cap FieldNames(ts[is[k][p].left_table])] :
                   fk \in {x \in DOMAIN ts[is[k][p].right_table].fds :
                             LET fd == ts[is[k][p].right_table].fds[x]
                                 l == ts[is[k][p].left_table]
                             IN /\ fd.lhs \subseteq key_fields(l)
                                /\ fd.rhs \cap FieldNames(l) # {}}} :
                 p \in DOMAIN is[k]} : k \in DOMAIN is}

\* the add_fd calls go to one table each; calls on different tables commute
RECURSIVE CopyFdsInto(_, _, _)
CopyFdsInto(tss, items, names) ==
  IF names = {} THEN tss
  ELSE LET n == CHOOSE x \in names : TRUE
           mine == {[id |-> it.id, lhs |-> it.lhs, rhs |-> it.rhs] :
                      it \in {j \in items : j.table = n}}
       IN CopyFdsInto(
            UNION {{MapPut(ts, n, r) :
                      r \in AddFdsAnyOrder({[t |-> ts[n], done |-> {}]}, mine, Cardinality(mine))} :
                   ts \in tss},
            items, names \ {n})

copy_fds(ts, is) ==
  CopyFdsInto({ts}, CopyFdItems(ts, is), {it.table : it \in CopyFdItems(ts, is)})

-----------------------------------------------------------------------------
(* The schemas the model starts from and the inputs it draws *)

MaxNameLen == 11

fx == <<120>>
fy == <<121>>
fz == <<122>>
ta == <<97>>
tb == <<98>>
tc == <<99>>

K(n) == [name |-> n, key |-> TRUE]
N(n) == [name |-> n, key |-> FALSE]

ShapesA == {<<K(fx), N(fy)>>, <<K(fx), N(fy), N(fz)>>, <<K(fx), K(fy), N(fz)>>}
ShapesB == {<<K(fx), N(fy)>>, <<K(fy), N(fz)>>}
ShapesC == {<<K(fx), N(fy)>>, <<K(fx), N(fz)>>}

\* two tables a and b; three tables a, b and c
TwoTables == (ta :> ShapesA) @@ (tb :> ShapesB)
SmallTables == (ta :> {<<K(fx), N(fy)>>}) @@ (tb :> {<<K(fx), N(fy)>>})
ThreeTables == (ta :> {<<K(fx), N(fy)>>}) @@ (tb :> {<<K(fx), N(fy)>>}) @@ (tc :> ShapesC)

\* the parser's create rule: the fields, then add_pk_fd
Create(shape) == add_pk_fd([fields |-> shape, fds |-> EmptyMap])

Schema == [tables |-> tables, inds |-> inds]

NonEmptySubsets(S) == (SUBSET S) \ {{}}

\* injective field vectors of length n over S
InjVecs(S, n) == {v \in [1..n -> S] : NoDup(v)}

\* the INDs main.rs builds: the left vector sorted, the right one permuted alike
IndInputs(ts) ==
  {Ind(l, SortedVec(ls), r, rv) :
     <<l, r, ls, rv>> \in
       UNION {UNION {{<<l0, r0, ls0, rv0>> : rv0 \in InjVecs(FieldNames(ts[r0]), Cardinality(ls0))} :
                       ls0 \in {x \in NonEmptySubsets(FieldNames(ts[l0])) :
                                  Cardinality(x) <= Cardinality(FieldNames(ts[r0]))}} :
                <<l0, r0>> \in {q \in (DOMAIN ts) \X (DOMAIN ts) : q[1] # q[2]}}}

\* the schemas of the input file: shapes gives, for each table name, the
\* field lists it may have.  budget: how many add_fd calls, add_ind calls and
\* engine calls may still be made
InitWith(shapes, nfd, nind, nops) ==
  /\ tables \in {ts \in [DOMAIN shapes -> UNION {UNION {Create(sh) : sh \in shapes[n]} : n \in DOMAIN shapes}] :
                   \A n \in DOMAIN shapes : ts[n] \in UNION {Create(sh) : sh \in shapes[n]}}
  /\ inds = EmptyMap
  /\ pc = "idle"
  /\ todo = {}
  /\ changed = FALSE
  /\ any_changed = FALSE
  /\ last = [op |-> "init"]
  /\ budget = [fd |-> nfd, ind |-> nind, ops |-> nops]

-----------------------------------------------------------------------------
(* Loading: add_fd and add_ind as main.rs calls them *)

\* main.rs loads the FDs and INDs of the input file before it runs the engine
Loading == pc = "idle" /\ last.op \in {"init", "add_fd", "add_ind", "add_ind_eq"}

AddFd ==
  /\ Loading
  /\ budget.fd > 0
  /\ \E n \in DOMAIN tables : \E lhs, rhs \in NonEmptySubsets(FieldNames(tables[n])) :
       \E t \in add_fd(tables[n], lhs, rhs) :
         /\ tables' = MapPut(tables, n, t)
         /\ last' = [op |-> "add_fd", table |-> n, lhs |-> lhs, rhs |-> rhs,
                     pre |-> tables[n]]
  /\ budget' = [budget EXCEPT !.fd = @ - 1]
  /\ UNCHANGED <<inds, pc, todo, changed, any_changed>>

AddInd ==
  /\ Loading
  /\ budget.ind > 0
  /\ \E i \in IndInputs(tables) :
       /\ inds' = add_ind(inds, i)
       /\ last' = [op |-> "add_ind", ind |-> i, ret |-> add_ind_returns(inds, i),
                   pre |-> Schema]
  /\ budget' = [budget EXCEPT !.ind = @ - 1]
  /\ UNCHANGED <<tables, pc, todo, changed, any_changed>>

\* main.rs sorts the left fields of an IND and permutes the right fields alike
SortInd(i) ==
  LET p == SortPerm(i.left_fields) IN
  Ind(i.left_table, ApplyPerm(p, i.left_fields), i.right_table, ApplyPerm(p, i.right_fields))

\* an inclusion written with "==": the parser yields the reverse IND, then the
\* IND itself, and main.rs adds them in that order
AddIndEq ==
  /\ Loading
  /\ budget.ind > 0
  /\ \E i \in IndInputs(tables) :
       /\ inds' = add_ind(add_ind(inds, SortInd(reverse(i))), i)
       /\ last' = [op |-> "add_ind_eq", ind |-> i,
                   ret |-> add_ind_returns(add_ind(inds, SortInd(reverse(i))), i)]
  /\ budget' = [budget EXCEPT !.ind = @ - 1]
  /\ UNCHANGED <<tables, pc, todo, changed, any_changed>>

-----------------------------------------------------------------------------
(* normalize(): one action per iteration of its loops *)

CanStart == pc = "idle" /\ budget.ops > 0

NormalizeBegin ==
  /\ CanStart
  /\ pc' = "normalize"
  /\ todo' = DOMAIN tables
  /\ changed' = FALSE
  /\ any_changed' = FALSE
  /\ last' = [op |-> "normalize", pre |-> Schema, decs |-> {}]
  /\ budget' = [budget EXCEPT !.ops = @ - 1]
  /\ UNCHANGED <<tables, inds>>

\* "Skip tables already in BCNF"
NormalizeSkip ==
  /\ pc = "normalize"
  /\ \E n \in todo :
       /\ is_bcnf(tables[n])
       /\ todo' = todo \ {n}
  /\ UNCHANGED <<tables, inds, pc, changed, any_changed, last, budget>>

\* "Decompose the tables and update the map"
NormalizeDecompose ==
  /\ pc = "normalize"
  /\ \E n \in todo :
       /\ ~is_bcnf(tables[n])
       /\ Len(n) + Len(SuffixBase) <= MaxNameLen
       /\ \E vfd \in Violators(tables[n]) : \E sc \in Decompose(tables, inds, n, vfd) :
            /\ tables' = sc.tables
            /\ inds' = sc.inds
            /\ last' = [op |-> "decompose", pre |-> last.pre, table |-> n, vfd |-> vfd,
                        parent |-> tables[n],
                        decs |-> last.decs \cup {[table |-> n, vfd |-> vfd, parent |-> tables[n]]}]
       /\ todo' = todo \ {n}
  /\ changed' = TRUE
  /\ any_changed' = TRUE
  /\ UNCHANGED <<pc, budget>>

\* a normalize that makes one pass only: it returns at the end of the for
\* loop whether or not a table was decomposed
NormalizePassEndOnce ==
  /\ pc = "normalize"
  /\ todo = {}
  /\ pc' = "idle"
  /\ last' = [op |-> "normalize_done", pre |-> last.pre, decs |-> last.decs,
              ret |-> any_changed]
  /\ UNCHANGED <<tables, inds, todo, changed, any_changed, budget>>

\* the end of the for loop: another pass, or return any_changed
NormalizePassEnd ==
  /\ pc = "normalize"
  /\ todo = {}
  /\ IF changed
     THEN /\ todo' = DOMAIN tables
          /\ changed' = FALSE
          /\ UNCHANGED <<pc, last>>
     ELSE /\ pc' = "idle"
          /\ last' = [op |-> "normalize_done", pre |-> last.pre, decs |-> last.decs,
                      ret |-> any_changed]
          /\ UNCHANGED <<todo, changed>>
  /\ UNCHANGED <<tables, inds, any_changed, budget>>

-----------------------------------------------------------------------------
(* subsume(): one action per iteration of the stage-1 loop, one per later stage *)

SubsumeBegin ==
  /\ CanStart
  /\ pc' = "subsume1"
  /\ any_changed' = FALSE
  /\ last' = [op |-> "subsume", pre |-> Schema]
  /\ budget' = [budget EXCEPT !.ops = @ - 1]
  /\ UNCHANGED <<tables, inds, todo, changed>>

\* an iteration of the stage-1 loop that removes fields
SubsumeRemoveFields ==
  /\ pc = "subsume1"
  /\ \E i \in ToRemove(tables, inds) :
       /\ tables' = RemoveFromTable(tables, i)
       /\ inds' = prune_inds(RemoveFromTable(tables, i), inds)
       /\ last' = [op |-> "remove_fields", pre |-> last.pre, ind |-> i,
                   removed |-> remove_fields(tables, i)]
  /\ any_changed' = TRUE
  /\ UNCHANGED <<pc, todo, changed, budget>>

\* the iteration that finds nothing to remove ends stage 1
SubsumeFieldsDone ==
  /\ pc = "subsume1"
  /\ ToRemove(tables, inds) = {}
  /\ inds' = prune_inds(tables, inds)
  /\ pc' = "subsume2"
  /\ last' = [op |-> "fields_done", pre |-> last.pre, changed1 |-> any_changed]
  /\ UNCHANGED <<tables, todo, changed, any_changed, budget>>

\* stage 2
SubsumeTables ==
  /\ pc = "subsume2"
  /\ LET rem == Stage2Remove(tables, inds) IN
       /\ tables' = RemoveTables(tables, rem)
       /\ inds' = IF rem # {} THEN prune_inds(RemoveTables(tables, rem), inds) ELSE inds
       /\ any_changed' = (any_changed \/ rem # {})
       /\ last' = [op |-> "tables_done", pre |-> last.pre, changed1 |-> last.changed1,
                   at2 |-> Schema, removed |-> rem]
  /\ pc' = "subsume3"
  /\ UNCHANGED <<todo, changed, budget>>

\* stage 3 and the return
SubsumeMerge ==
  /\ pc = "subsume3"
  /\ \E r \in Stage3(tables, inds) :
       /\ tables' = r.tables
       /\ inds' = r.inds
       /\ any_changed' = (any_changed \/ r.merged # <<>>)
       /\ last' = [op |-> "subsume_done", pre |-> last.pre, changed1 |-> last.changed1,
                   at2 |-> last.at2, removed |-> last.removed, at3 |-> Schema,
                   merged |-> r.merged, ret |-> (any_changed \/ r.merged # <<>>)]
  /\ pc' = "idle"
  /\ UNCHANGED <<todo, changed, budget>>

-----------------------------------------------------------------------------
(* ind_closure(): one action per pass of its loop; copy_fds, copy_inds, closure *)

\* the loop is left after every pass
LoopNever(r) == FALSE

\* "while changed": the loop goes round again when the pass set changed
LoopAgain(r) == r.changed

\* "while changed" found changed set: the loop goes round again
IndClosureLoop ==
  /\ pc = "ind_closure"
  /\ pc' = "ind_pass"
  /\ UNCHANGED <<tables, inds, todo, changed, any_changed, last, budget>>

\* one pass of the loop, the first of a call or a later one
IndClosureStep ==
  /\ \/ CanStart /\ budget' = [budget EXCEPT !.ops = @ - 1]
     \/ pc = "ind_pass" /\ UNCHANGED budget
  /\ \E r \in IndClosurePass(tables, inds) :
       /\ inds' = r.inds
       /\ pc' = IF r.panic THEN "panic" ELSE IF LoopAgain(r) THEN "ind_closure" ELSE "idle"
       /\ any_changed' = ((pc = "ind_pass" /\ any_changed) \/ r.changed)
       /\ last' = [op |-> IF r.panic THEN "panic"
                          ELSE IF LoopAgain(r) THEN "ind_closure" ELSE "ind_closure_done",
                   pre |-> IF pc = "ind_pass" THEN last.pre ELSE Schema,
                   again |-> IF pc = "ind_pass" THEN last.again
                             ELSE last.op = "ind_closure_done",
                   first_ret |-> IF pc = "ind_pass" THEN last.first_ret
                                 ELSE last.op = "ind_closure_done" /\ last.ret,
                   ret |-> ((pc = "ind_pass" /\ any_changed) \/ r.changed)]
  /\ UNCHANGED <<tables, todo, changed>>

CopyFds ==
  /\ CanStart
  /\ \E ts \in copy_fds(tables, inds) : tables' = ts
  /\ last' = [op |-> "copy_fds", pre |-> Schema]
  /\ budget' = [budget EXCEPT !.ops = @ - 1]
  /\ UNCHANGED <<inds, pc, todo, changed, any_changed>>

\* Table::copy_fds(other) on a table of the schema, from another one
TableCopyFds ==
  /\ CanStart
  /\ \E src, dst \in DOMAIN tables :
       /\ src # dst
       /\ \E t \in table_copy_fds(tables[dst], tables[src]) : tables' = MapPut(tables, dst, t)
       /\ last' = [op |-> "table_copy_fds", pre |-> Schema, src |-> src, dst |-> dst]
  /\ budget' = [budget EXCEPT !.ops = @ - 1]
  /\ UNCHANGED <<inds, pc, todo, changed, any_changed>>

CopyInds ==
  /\ CanStart
  /\ \E src, dst \in DOMAIN tables :
       /\ src # dst
       /\ \E is \in copy_inds(tables, inds, src, dst) : inds' = is
       /\ last' = [op |-> "copy_inds", pre |-> Schema, src |-> src, dst |-> dst]
  /\ budget' = [budget EXCEPT !.ops = @ - 1]
  /\ UNCHANGED <<tables, pc, todo, changed, any_changed>>

\* The engine as a whole: every operation, on schemas of two tables loaded
\* with one FD and one IND, on schemas of three tables loaded with INDs, and
\* two operations in a row on the smallest schemas
MaxFd == 1
MaxInd == 1
MaxOps == 1
ClosureMaxInd == 2
ClosureMaxOps == 1
SeqMaxFd == 1
SeqMaxInd == 1
SeqMaxOps == 2

Init ==
  \/ InitWith(TwoTables, MaxFd, MaxInd, MaxOps)
  \/ InitWith(ThreeTables, 0, ClosureMaxInd, ClosureMaxOps)
  \/ InitWith(SmallTables, SeqMaxFd, SeqMaxInd, SeqMaxOps)

Next ==
  \/ AddFd
  \/ AddInd
  \/ AddIndEq
  \/ NormalizeBegin
  \/ NormalizeSkip
  \/ NormalizeDecompose
  \/ NormalizePassEnd
  \/ SubsumeBegin
  \/ SubsumeRemoveFields
  \/ SubsumeFieldsDone
  \/ SubsumeTables
  \/ SubsumeMerge
  \/ IndClosureLoop
  \/ IndClosureStep
  \/ CopyFds
  \/ TableCopyFds
  \/ CopyInds

Spec == Init /\ [][Next]_vars

\* normalize() alone, on loaded schemas
NormMaxFd == 1
NormMaxInd == 1

InitNormalize == InitWith(TwoTables, NormMaxFd, NormMaxInd, 1)

NextNormalize ==
  \/ AddFd
  \/ AddInd
  \/ NormalizeBegin
  \/ NormalizeSkip
  \/ NormalizeDecompose
  \/ NormalizePassEnd

SpecNormalize == InitNormalize /\ [][NextNormalize]_vars

\* subsume() alone, on loaded schemas
SubMaxFd == 1
SubMaxInd == 1
MergeMaxInd == 2
MergeMaxOps == 2

InitSubsume ==
  \/ InitWith(TwoTables, SubMaxFd, SubMaxInd, 1)
  \/ InitWith(ThreeTables, 0, MergeMaxInd, MergeMaxOps)

NextSubsume ==
  \/ AddFd
  \/ AddInd
  \/ AddIndEq
  \/ SubsumeBegin
  \/ SubsumeRemoveFields
  \/ SubsumeFieldsDone
  \/ SubsumeTables
  \/ SubsumeMerge

SpecSubsume == InitSubsume /\ [][NextSubsume]_vars

-----------------------------------------------------------------------------
(* closure() of an FD map alone, one pass of its loop per step *)

fw == <<119>>

\* the FD maps of at most n entries, keyed by the sorted lhs, with the lhs
\* over the key fields of the shape when keyed is set, over all fields
\* otherwise, and the rhs over all fields; lhs and rhs may overlap
FdMapsOver(shape, n, keyed) ==
  LET F == Range([i \in DOMAIN shape |-> shape[i].name])
      KF == {shape[i].name : i \in {j \in DOMAIN shape : shape[j].key}}
      Lhs == NonEmptySubsets(IF keyed THEN KF ELSE F)
  IN {[k \in {SortedVec(l) : l \in q[1]} |-> [lhs |-> Range(k), rhs |-> q[2][Range(k)]]] :
        q \in UNION {{<<L, r>> : r \in [L -> NonEmptySubsets(F)]} :
                       L \in {x \in SUBSET Lhs : Cardinality(x) <= n}}}

InitFds(shape, n, keyed, ncalls) ==
  /\ tables \in {(ta :> [fields |-> shape, fds |-> m]) : m \in FdMapsOver(shape, n, keyed)}
  /\ inds = EmptyMap
  /\ pc = "idle"
  /\ todo = {}
  /\ changed = FALSE
  /\ any_changed = FALSE
  /\ last = [op |-> "init"]
  /\ budget = [fd |-> 0, ind |-> 0, ops |-> ncalls]

\* no pass inserts anything: "changed" stays false at the end of every pass
PassInsertsNever(m) == FALSE

\* "changed" at the end of a pass: some FD of new_fds was inserted.  The first
\* FD of new_fds always is, as it was pushed for not being within the stored rhs
PassInserts(m) == Proposals(m) # {}

\* closure() on the FDs of table a: one iteration of "while changed" per step
ClosureStep ==
  /\ \/ CanStart /\ budget' = [budget EXCEPT !.ops = @ - 1]
     \/ pc = "closure" /\ UNCHANGED budget
  /\ \E m2 \in ClosurePass(tables[ta].fds) :
       LET ch == PassInserts(tables[ta].fds) IN
       /\ tables' = [tables EXCEPT ![ta].fds = m2]
       /\ pc' = IF ch THEN "closure" ELSE "idle"
       /\ any_changed' = ((pc = "closure" /\ any_changed) \/ ch)
       /\ last' = [op |-> IF ch THEN "closure" ELSE "closure_done",
                   pre |-> IF pc = "closure" THEN last.pre ELSE tables[ta].fds,
                   again |-> IF pc = "closure" THEN last.again ELSE last.op = "closure_done",
                   first_ret |-> IF pc = "closure" THEN last.first_ret
                                 ELSE last.op = "closure_done" /\ last.ret,
                   ret |-> ((pc = "closure" /\ any_changed) \/ ch)]
  /\ UNCHANGED <<inds, todo, changed>>

FdMaxFds == 3
FdMaxCalls == 2
WideMaxFds == 3

\* every map of three FDs over three fields, and the maps of three FDs over
\* four fields whose lhs are within the two key fields
InitClosure ==
  \/ InitFds(<<K(fx), N(fy), N(fz)>>, FdMaxFds, FALSE, FdMaxCalls)
  \/ InitFds(<<K(fx), K(fy), N(fz), N(fw)>>, WideMaxFds, TRUE, FdMaxCalls)

NextClosure == ClosureStep

SpecClosure == InitClosure /\ [][NextClosure]_vars

\* add_fd alone: the FDs of an input file added to one table
LoadMaxFd == 2

InitLoad ==
  InitWith((ta :> {<<K(fx), N(fy), N(fz)>>, <<K(fx), K(fy), N(fz)>>,
                   <<K(fx), K(fy), N(fz), N(fw)>>}), LoadMaxFd, 0, 0)

NextLoad == AddFd

SpecLoad == InitLoad /\ [][NextLoad]_vars

\* the loop of closure() is not suspended: a pass that can run does run
FairClosure == SpecClosure /\ WF_vars(ClosureStep)

-----------------------------------------------------------------------------
(* ind_closure() alone, one pass of its loop per step, on loaded schemas *)

\* the stores that add_ind builds from the INDs of S, added in any order
LoadedInds(S) == AddIndsAnyOrder({[is |-> EmptyMap, done |-> {}]}, S, Cardinality(S))

\* the INDs of an input file: all of them, or those that lead from a table to
\* the next one in the order a, b, c
IndChoices(ts, chain) ==
  IF chain
  THEN {i \in IndInputs(ts) : <<i.left_table, i.right_table>> \in {<<ta, tb>>, <<tb, tc>>}}
  ELSE IndInputs(ts)

\* the subsets of S of at most n elements
RECURSIVE SubsetsUpTo(_, _)
SubsetsUpTo(S, n) ==
  IF n = 0 THEN {{}}
  ELSE LET P == SubsetsUpTo(S, n - 1) IN P \cup {q[1] \cup {q[2]} : q \in P \X S}

\* a schema loaded with the tables of TS and at most n INDs
InitSchema(TS, n, chain, ncalls) ==
  /\ tables \in TS
  /\ inds \in UNION {LoadedInds(S) : S \in SubsetsUpTo(IndChoices(tables, chain), n)}
  /\ pc = "idle"
  /\ todo = {}
  /\ changed = FALSE
  /\ any_changed = FALSE
  /\ last = [op |-> "init"]
  /\ budget = [fd |-> 0, ind |-> 0, ops |-> ncalls]

\* the schemas of the tables of shapes, each with its primary-key FD
Created(shapes) ==
  {ts \in [DOMAIN shapes -> UNION {UNION {Create(sh) : sh \in shapes[n]} : n \in DOMAIN shapes}] :
     \A n \in DOMAIN shapes : ts[n] \in UNION {Create(sh) : sh \in shapes[n]}}

ChainMaxInd == 4
AnyMaxInd == 2
IndMaxCalls == 2

InitIndClosure ==
  \/ InitSchema(Created(ThreeTables), ChainMaxInd, TRUE, IndMaxCalls)
  \/ InitSchema(Created(ThreeTables), AnyMaxInd, FALSE, IndMaxCalls)

NextIndClosure ==
  \/ IndClosureLoop
  \/ IndClosureStep

SpecIndClosure == InitIndClosure /\ [][NextIndClosure]_vars

\* a pass that has been entered runs to its end: pc leaves "ind_pass"
PassRuns == pc = "ind_pass" /\ pc' \in {"ind_closure", "idle", "panic"}

\* the loop of ind_closure() is not suspended: it goes round while changed is
\* set, and a pass that has been entered runs to its end
FairIndClosure == SpecIndClosure /\ WF_vars(IndClosureLoop) /\ WF_pc(PassRuns)

\* prune_inds() alone, on INDs that mention tables and fields the schema may
\* lack: the INDs are drawn over the tables of W, the schema has those of TS
InitPrune(TS, W, n, ncalls) ==
  /\ tables \in TS
  /\ inds \in UNION {LoadedInds(S) : S \in SubsetsUpTo(IndInputs(W), n)}
  /\ pc = "idle"
  /\ todo = {}
  /\ changed = FALSE
  /\ any_changed = FALSE
  /\ last = [op |-> "init"]
  /\ budget = [fd |-> 0, ind |-> 0, ops |-> ncalls]

PruneInds ==
  /\ CanStart
  /\ inds' = prune_inds(tables, inds)
  /\ last' = [op |-> "prune_inds", pre |-> Schema]
  /\ budget' = [budget EXCEPT !.ops = @ - 1]
  /\ UNCHANGED <<tables, pc, todo, changed, any_changed>>

\* the schemas of shapes, and the same without table c
WithOrWithoutC(shapes) ==
  Created(shapes) \cup {[n \in {ta, tb} |-> ts[n]] : ts \in Created(shapes)}

PruneMaxInd == 2
PruneMaxCalls == 1

InitPruneInds ==
  InitPrune(WithOrWithoutC((ta :> {<<K(fx), N(fy)>>, <<K(fx), N(fy), N(fz)>>})
                             @@ (tb :> {<<K(fx), N(fy)>>, <<K(fy), N(fz)>>})
                             @@ (tc :> {<<K(fx), N(fy)>>})),
            CHOOSE w \in Created((ta :> {<<K(fx), N(fy), N(fz)>>})
                                   @@ (tb :> {<<K(fx), N(fy), N(fz)>>})
                                   @@ (tc :> {<<K(fx), N(fy)>>})) : TRUE,
            PruneMaxInd, PruneMaxCalls)

NextPruneInds == PruneInds

SpecPruneInds == InitPruneInds /\ [][NextPruneInds]_vars

\* retain_fk_inds() as main.rs calls it with --retain-fks: once the FDs and
\* the INDs of the input file are loaded
RetainFkInds ==
  /\ CanStart
  /\ inds' = retain_fk_inds(tables, inds)
  /\ last' = [op |-> "retain_fk_inds", pre |-> Schema]
  /\ budget' = [budget EXCEPT !.ops = @ - 1]
  /\ UNCHANGED <<tables, pc, todo, changed, any_changed>>

FkMaxFd == 1
FkMaxInd == 2
FkMaxCalls == 1

InitRetainFk == InitWith(TwoTables, FkMaxFd, FkMaxInd, FkMaxCalls)

NextRetainFk ==
  \/ AddFd
  \/ AddInd
  \/ RetainFkInds

SpecRetainFk == InitRetainFk /\ [][NextRetainFk]_vars

\* minimize_fds() alone, on a table of four fields with a primary key and on
\* a table of five fields that are all key fields, loaded with their FDs
fv == <<118>>

\* the FDs of an input file over the fields of shape, with disjoint sides
DisjointFds(shape) ==
  LET F == Range([i \in DOMAIN shape |-> shape[i].name]) IN
  {[lhs |-> l, rhs |-> r] :
     <<l, r>> \in {q \in NonEmptySubsets(F) \X NonEmptySubsets(F) : q[1] \cap q[2] = {}}}

MinimizeFds ==
  /\ CanStart
  /\ \E t \in minimize_fds(tables[ta]) : tables' = MapPut(tables, ta, t)
  /\ last' = [op |-> "minimize_fds", pre |-> tables[ta]]
  /\ budget' = [budget EXCEPT !.ops = @ - 1]
  /\ UNCHANGED <<inds, pc, todo, changed, any_changed>>

MinMaxFd == 2
MinMaxCalls == 1

\* create (with the primary-key FD), then add_fd for every FD of the file
InitMinimize ==
  /\ tables \in
       {(ta :> t) : t \in
          UNION {UNION {AddFdsAnyOrder({[t |-> c, done |-> {}] : c \in Create(shape)},
                                       S, Cardinality(S)) :
                          S \in SubsetsUpTo(DisjointFds(shape), MinMaxFd)} :
                   shape \in {<<K(fx), N(fy), N(fz), N(fw)>>,
                              <<K(fx), K(fy), K(fz), K(fw), K(fv)>>}}}
  /\ inds = EmptyMap
  /\ pc = "idle"
  /\ todo = {}
  /\ changed = FALSE
  /\ any_changed = FALSE
  /\ last = [op |-> "init"]
  /\ budget = [fd |-> 0, ind |-> 0, ops |-> MinMaxCalls]

NextMinimize == MinimizeFds

SpecMinimize == InitMinimize /\ [][NextMinimize]_vars

\* IND::reverse alone: an IND is drawn, reversed, and the result reversed
\* again.  The lists of the drawn IND are in any order, and the short ones
\* may repeat a field
RevMaxLen == 3
RevMaxCalls == 2

ReverseInputs ==
  LET F == (ta :> {fx, fy, fz}) @@ (tb :> {fy, fz, fw})
      Vecs(S, n) == IF n < RevMaxLen THEN [1..n -> S] ELSE InjVecs(S, n)
  IN UNION {UNION {{Ind(q[1], lf, q[2], rf) : lf \in Vecs(F[q[1]], n), rf \in Vecs(F[q[2]], n)} :
                     n \in 1..RevMaxLen} :
              q \in {<<ta, tb>>, <<tb, ta>>}}

InitReverse ==
  /\ tables \in Created((ta :> {<<K(fx), N(fy), N(fz)>>}) @@ (tb :> {<<K(fy), N(fz), N(fw)>>}))
  /\ inds = EmptyMap
  /\ pc = "idle"
  /\ todo = {}
  /\ changed = FALSE
  /\ any_changed = FALSE
  /\ last \in {[op |-> "init", ind |-> i] : i \in ReverseInputs}
  /\ budget = [fd |-> 0, ind |-> 0, ops |-> RevMaxCalls]

ReverseInd ==
  /\ CanStart
  /\ last' = IF last.op = "init"
             THEN [op |-> "reverse", ind |-> last.ind, rev |-> reverse(last.ind),
                   twice |-> FALSE, orig |-> last.ind]
             ELSE [op |-> "reverse", ind |-> last.rev, rev |-> reverse(last.rev),
                   twice |-> TRUE, orig |-> last.ind]
  /\ budget' = [budget EXCEPT !.ops = @ - 1]
  /\ UNCHANGED <<tables, inds, pc, todo, changed, any_changed>>

NextReverse == ReverseInd

SpecReverse == InitReverse /\ [][NextReverse]_vars

\* The loading of main.rs on an input file whose FD and IND lines may name a
\* table or a field that no create line declares, with and without
\* --ignore-missing.  The option is carried in last.
fq == <<113>>

InputMaxFd == 1
InputMaxInd == 1
InputMaxLen == 2

\* the FD lines: a table name and two field lists, over declared and
\* undeclared names
FdLines ==
  {[table |-> t, lhs |-> l, rhs |-> r] :
     <<t, l, r>> \in {ta, tb, tc} \X NonEmptySubsets({fx, fy, fq}) \X NonEmptySubsets({fx, fy, fq})}

\* the IND lines
IndLines ==
  UNION {{Ind(q[1], lf, q[2], rf) : lf \in InjVecs({fx, fy, fq}, n), rf \in InjVecs({fx, fy, fq}, n)} :
           <<q, n>> \in {p \in {ta, tb, tc} \X {ta, tb, tc} : p[1] # p[2]} \X (1..InputMaxLen)}

InitInput ==
  /\ tables \in Created((ta :> {<<K(fx), N(fy)>>}) @@ (tb :> {<<K(fx), N(fy)>>}))
  /\ inds = EmptyMap
  /\ pc = "idle"
  /\ todo = {}
  /\ changed = FALSE
  /\ any_changed = FALSE
  /\ last \in {[op |-> "init", ignore_missing |-> o] : o \in BOOLEAN}
  /\ budget = [fd |-> InputMaxFd, ind |-> InputMaxInd, ops |-> 0]

\* one iteration of "for fd in &fd_vec"
LoadFd ==
  /\ pc = "idle"
  /\ last.op \in {"init", "load_fd"}
  /\ budget.fd > 0
  /\ \E d \in FdLines :
       /\ last' = [op |-> "load_fd", ignore_missing |-> last.ignore_missing,
                   fd |-> d, pre |-> Schema]
       /\ IF last.ignore_missing /\ d.table \notin DOMAIN tables
          THEN UNCHANGED <<tables, pc>>
          ELSE IF d.table \notin DOMAIN tables
          THEN pc' = "failed" /\ UNCHANGED tables
          ELSE /\ \E t \in add_fd(tables[d.table], d.lhs, d.rhs) :
                    tables' = MapPut(tables, d.table, t)
               /\ UNCHANGED pc
  /\ budget' = [budget EXCEPT !.fd = @ - 1]
  /\ UNCHANGED <<inds, todo, changed, any_changed>>

\* one iteration of "for ind in &ind_vec"
LoadInd ==
  /\ pc = "idle"
  /\ last.op \in {"init", "load_fd", "load_ind"}
  /\ budget.ind > 0
  /\ \E d \in IndLines :
       /\ last' = [op |-> "load_ind", ignore_missing |-> last.ignore_missing,
                   ind |-> d, pre |-> Schema]
       /\ IF /\ last.ignore_missing
             /\ ~(d.left_table \in DOMAIN tables /\ d.right_table \in DOMAIN tables)
          THEN UNCHANGED inds
          ELSE inds' = add_ind(inds, SortInd(d))
  /\ budget' = [budget EXCEPT !.ind = @ - 1]
  /\ UNCHANGED <<tables, pc, todo, changed, any_changed>>

NextInput ==
  \/ LoadFd
  \/ LoadInd

SpecInput == InitInput /\ [][NextInput]_vars

\* normalize() on an input file that declares a table a and a table a_base
CollideMaxFd == 1

InitCollide ==
  InitWith((ta :> ShapesA) @@ ((ta \o SuffixBase) :> {<<K(fx), N(fy)>>}), CollideMaxFd, 0, 1)

NextCollide ==
  \/ AddFd
  \/ NormalizeBegin
  \/ NormalizeSkip
  \/ NormalizeDecompose
  \/ NormalizePassEnd

SpecCollide == InitCollide /\ [][NextCollide]_vars

\* sequences of ind_closure(), normalize() and subsume() calls on a loaded
\* schema of two tables
EngineMaxFd == 1
EngineMaxInd == 1
EngineMaxOps == 2
EnginePairMaxInd == 2

InitEngine ==
  \/ InitWith((ta :> {<<K(fx), N(fy)>>}) @@ (tb :> ShapesB), 0, EngineMaxInd, EngineMaxOps)
  \/ InitWith((ta :> {<<K(fx), N(fy), N(fz)>>}) @@ (tb :> {<<K(fx), N(fy)>>}),
              EngineMaxFd, 0, EngineMaxOps)
  \/ InitWith(SmallTables, 0, EnginePairMaxInd, 1)

NextEngine ==
  \/ AddFd
  \/ AddInd
  \/ AddIndEq
  \/ NormalizeBegin
  \/ NormalizeSkip
  \/ NormalizeDecompose
  \/ NormalizePassEnd
  \/ SubsumeBegin
  \/ SubsumeRemoveFields
  \/ SubsumeFieldsDone
  \/ SubsumeTables
  \/ SubsumeMerge
  \/ IndClosureLoop
  \/ IndClosureStep

SpecEngine == InitEngine /\ [][NextEngine]_vars

-----------------------------------------------------------------------------
(* Properties of normalize *)

IsPrefix(s, t) == Len(s) <= Len(t) /\ SubSeq(t, 1, Len(s)) = s

BaseName(n) == n \o SuffixBase
ExtName(n) == n \o SuffixExt

\* C1: normalize() with the deterministic selector terminates on every
\* finite schema.  What a table is decomposed into depends on its fields, key
\* flags and FDs alone, so a terminating run never finds, among the
\* descendants of a table it decomposed, a table with the same fields, key
\* flags and FDs that still violates BCNF: from there the same
\* decompositions would repeat for ever.
C1_NormalizeTerminates ==
  pc = "normalize" =>
    \A d \in last.decs : \A n \in DOMAIN tables :
      (IsPrefix(d.table, n) /\ n # d.table /\ ~is_bcnf(tables[n])) => tables[n] # d.parent

C6_DecomposedFields ==
  last.op = "decompose" =>
    LET T == last.parent
        X == last.vfd.lhs
        Y == last.vfd.rhs
        base == tables[BaseName(last.table)]
        ext == tables[ExtName(last.table)]
    IN /\ FieldNames(base) = X \cup (FieldNames(T) \ Y)
       /\ FieldNames(ext) = X \cup Y
       /\ key_fields(ext) = X
       /\ key_fields(base) = key_fields(T) \ Y

\* C7: after normalize() decomposed T on X -> Y and split neither product
\* further, T is gone, T_base and T_ext exist and the schema contains
\* T_base(X) <= T_ext(X) and T_ext(X) <= T_base(X)
C7_PairedInds ==
  last.op = "normalize_done" =>
    \A d \in last.decs :
      (~\E e \in last.decs : e.table \in {BaseName(d.table), ExtName(d.table)}) =>
        LET X == SortedVec(d.vfd.lhs) IN
        /\ d.table \notin DOMAIN tables
        /\ BaseName(d.table) \in DOMAIN tables
        /\ ExtName(d.table) \in DOMAIN tables
        /\ contains_ind(inds, Ind(BaseName(d.table), X, ExtName(d.table), X))
        /\ contains_ind(inds, Ind(ExtName(d.table), X, BaseName(d.table), X))

\* the property of C7 for the decompositions on an FD whose sides do not
\* overlap
C7_Disjoint ==
  last.op = "normalize_done" =>
    \A d \in last.decs :
      ((~\E e \in last.decs : e.table \in {BaseName(d.table), ExtName(d.table)})
         /\ d.vfd.lhs \cap d.vfd.rhs = {}) =>
        LET X == SortedVec(d.vfd.lhs) IN
        /\ d.table \notin DOMAIN tables
        /\ BaseName(d.table) \in DOMAIN tables
        /\ ExtName(d.table) \in DOMAIN tables
        /\ contains_ind(inds, Ind(BaseName(d.table), X, ExtName(d.table), X))
        /\ contains_ind(inds, Ind(ExtName(d.table), X, BaseName(d.table), X))

\* the property of C6 for the decompositions on an FD whose sides do not
\* overlap
C6_Disjoint ==
  (last.op = "decompose" /\ last.vfd.lhs \cap last.vfd.rhs = {}) => C6_DecomposedFields

-----------------------------------------------------------------------------
(* Properties of subsume *)

\* C3: every FD is stored under the sorted vector of its left-hand side,
\* whenever no call is under way
C3_FdKeys ==
  pc = "idle" =>
    \A n \in DOMAIN tables : \A k \in DOMAIN tables[n].fds :
      k = SortedVec(tables[n].fds[k].lhs)

\* the left fields that C8 says stage 1 removes for the IND i of the schema ts
ImpliedLeft(ts, i) ==
  {i.left_fields[p] : p \in {q \in DOMAIN i.left_fields :
     \E fd \in FdValues(ts[i.right_table].fds) :
       /\ fd.lhs \subseteq Range(i.right_fields)
       /\ i.right_fields[q] \in fd.rhs}}

\* the case C8 is about: the schema has the single IND i, between two tables,
\* and its right fields cover the key of the right table
SingleInd(sc, i) ==
  /\ AllInds(sc.inds) = {i}
  /\ i.left_table # i.right_table
  /\ key_fields(sc.tables[i.right_table]) \subseteq Range(i.right_fields)

\* C8: with a single IND i = L(l) <= R(r), r covering the key of R, subsume()
\* leaves L with its fields minus the left fields whose right partner is
\* implied by an FD of R over r, removes L if no field is left, and leaves R
\* as it was
C8_FieldRemoval ==
  last.op = "subsume_done" =>
    \A i \in AllInds(last.pre.inds) :
      SingleInd(last.pre, i) =>
        LET L == i.left_table
            R == i.right_table
            rest == FieldNames(last.pre.tables[L]) \ ImpliedLeft(last.pre.tables, i)
        IN /\ (rest = {}) <=> (L \notin DOMAIN tables)
           /\ L \in DOMAIN tables => FieldNames(tables[L]) = rest
           /\ R \in DOMAIN tables
           /\ tables[R] = last.pre.tables[R]

C8_Witness ==
  /\ last.op = "subsume_done"
  /\ \E i \in AllInds(last.pre.inds) :
       /\ SingleInd(last.pre, i)
       /\ ImpliedLeft(last.pre.tables, i) # {}
       /\ i.left_table \in DOMAIN tables
       /\ FieldNames(tables[i.left_table]) # FieldNames(last.pre.tables[i.left_table])

\* the condition of C9 on the table L of the schema sc
Subsumed(sc, L) ==
  \E i \in AllInds(sc.inds) :
    /\ i.left_table = L
    /\ i.right_table # L
    /\ FieldNames(sc.tables[L]) \subseteq Range(i.left_fields)
    /\ contains_ind(sc.inds, reverse(i))

\* C9: stage 2 removes exactly the tables L that, when it starts, have an IND
\* L(l) <= R(r), L # R, with every field of L in l and the reverse contained
\* in the schema
C9_TableSubsumption ==
  last.op = "tables_done" =>
    /\ \A L \in DOMAIN last.at2.tables : (L \in last.removed) <=> Subsumed(last.at2, L)
    /\ DOMAIN tables = DOMAIN last.at2.tables \ last.removed

C9_Witness ==
  /\ last.op = "tables_done"
  /\ last.removed # {}
  /\ DOMAIN tables # {}

\* the condition of C10 on the IND i of the schema sc
EquiKey(sc, i) ==
  LET L == sc.tables[i.left_table]
      R == sc.tables[i.right_table]
  IN /\ NameLess(i.left_table, i.right_table)
     /\ {p \in DOMAIN i.left_fields : i.left_fields[p] \in key_fields(L)}
          = {p \in DOMAIN i.right_fields : i.right_fields[p] \in key_fields(R)}
     /\ key_fields(L) \subseteq Range(i.left_fields)
     /\ key_fields(R) \subseteq Range(i.right_fields)
     /\ contains_ind(sc.inds, reverse(i))

\* an FD of R with each key field of R renamed to the key field of L at the
\* same position of i
RenameKeys(sc, i, fd) ==
  LET R == sc.tables[i.right_table]
      ren(f) == IF f \in key_fields(R) /\ Contains(i.right_fields, f)
                THEN i.left_fields[Position(i.right_fields, f)] ELSE f
  IN [lhs |-> {ren(f) : f \in fd.lhs}, rhs |-> {ren(f) : f \in fd.rhs}]

\* what C10 says of the tables after subsume() for the IND i of sc
MergedTable(sc, i) ==
  LET L == sc.tables[i.left_table]
      R == sc.tables[i.right_table]
      n == MergeName(i)
  IN /\ i.left_table \notin DOMAIN tables
     /\ i.right_table \notin DOMAIN tables
     /\ n \in DOMAIN tables
     /\ key_fields(tables[n]) = key_fields(L)
     /\ FieldNames(L) \subseteq FieldNames(tables[n])
     /\ Cardinality(FieldNames(tables[n]) \ FieldNames(L)) = Cardinality(NonKeyFields(R))

\* what C10 says of the FDs of R
MergedFds(sc, i) ==
  \A fd \in FdValues(sc.tables[i.right_table].fds) :
    contains_fd(tables[MergeName(i)], RenameKeys(sc, i, fd))

OnlyPair(sc, i) ==
  \A j \in AllInds(sc.inds) :
    (EquiKey(sc, j) /\ {j.left_table, j.right_table} \cap {i.left_table, i.right_table} # {})
      => (j.left_table = i.left_table /\ j.right_table = i.right_table)

\* an FD of R with its key fields renamed as in RenameKeys and its other
\* fields renamed by rho
RenameAll(sc, i, fd, rho) ==
  LET R == sc.tables[i.right_table]
      ren(f) == IF f \in key_fields(R)
                THEN i.left_fields[Position(i.right_fields, f)] ELSE rho[f]
  IN [lhs |-> {ren(f) : f \in fd.lhs}, rhs |-> {ren(f) : f \in fd.rhs} \ {ren(f) : f \in fd.lhs}]

\* the FDs of R, but for the fields they have on both sides, are in the merged
\* table under the names its fields got there
MergedFdsRenamed(sc, i) ==
  LET L == sc.tables[i.left_table]
      R == sc.tables[i.right_table]
      M == tables[MergeName(i)]
  IN \E rho \in [NonKeyFields(R) -> FieldNames(M) \ FieldNames(L)] :
       /\ \A f, g \in NonKeyFields(R) : rho[f] = rho[g] => f = g
       /\ \A fd \in FdValues(R.fds) : contains_fd(M, RenameAll(sc, i, fd, rho))

C10_ProbePair ==
  (last.op = "subsume_done" /\ ~last.changed1 /\ last.removed = {}) =>
    \A i \in AllInds(last.at3.inds) :
      (EquiKey(last.at3, i) /\ OnlyPair(last.at3, i))
        => (MergedTable(last.at3, i) /\ MergedFds(last.at3, i))

C10_ProbeRenamed ==
  (last.op = "subsume_done" /\ ~last.changed1 /\ last.removed = {}) =>
    \A i \in AllInds(last.at3.inds) :
      EquiKey(last.at3, i) => (MergedTable(last.at3, i) /\ MergedFdsRenamed(last.at3, i))

-----------------------------------------------------------------------------
(* Properties of the INDs of the schema *)

\* validate_inds: the IND i stored in the bucket k of the schema is well formed
ValidInd(ts, k, i) ==
  /\ k = <<i.left_table, i.right_table>>
  /\ i.left_table \in DOMAIN ts
  /\ i.right_table \in DOMAIN ts
  /\ \A p \in DOMAIN i.left_fields : HasField(ts[i.left_table], i.left_fields[p])
  /\ \A p \in DOMAIN i.right_fields : HasField(ts[i.right_table], i.right_fields[p])
  /\ Len(i.left_fields) = Len(i.right_fields)
  /\ NoDup(i.left_fields)
  /\ NoDup(i.right_fields)

ValidInds(ts, is) ==
  \A k \in DOMAIN is : \A p \in DOMAIN is[k] : ValidInd(ts, k, is[k][p])

\* C4: when ind_closure(), copy_inds(), normalize() or subsume() returns on a
\* schema whose INDs were well formed, every stored IND is in the bucket of
\* its two tables, both tables exist, every listed field exists in its table,
\* the two field lists have the same length and neither has a duplicate
C4_IndsValid ==
  (/\ pc = "idle"
   /\ last.op \in {"ind_closure_done", "copy_inds", "normalize_done", "subsume_done"}
   /\ ValidInds(last.pre.tables, last.pre.inds))
    => ValidInds(tables, inds)

C4_Witness ==
  /\ pc = "idle"
  /\ last.op = "ind_closure_done"
  /\ last.ret
  /\ ValidInds(last.pre.tables, last.pre.inds)
  /\ inds # last.pre.inds
  /\ inds # EmptyMap

\* C5: whenever no call is under way, no bucket holds two distinct INDs a and
\* b with a \subseteq b
C5_NoDominatedInd ==
  pc = "idle" =>
    \A k \in DOMAIN inds : \A p, q \in DOMAIN inds[k] :
      inds[k][p] # inds[k][q] => ~is_subset(inds[k][p], inds[k][q])

-----------------------------------------------------------------------------
(* Properties of the FD closure *)

Overlapping(m) == \E k \in DOMAIN m : m[k].lhs \cap m[k].rhs # {}

\* C11: every call of closure() returns: once its loop has started on an FD
\* map keyed by the sorted lhs, whatever the order in which the map is
\* iterated and whatever the overlap of lhs and rhs, it reaches a pass that
\* inserts nothing
C11_ClosureTerminates == (pc = "closure") ~> (pc = "idle")

\* closure() has returned after more than one inserting pass on a map with an
\* FD whose lhs and rhs overlap
C11_Witness ==
  /\ last.op = "closure_done"
  /\ last.ret
  /\ Overlapping(last.pre)
  /\ tables[ta].fds \notin ClosurePass(last.pre)
\* C12: a call of closure() made immediately after closure() has returned
\* returns false and leaves the FD map as it found it
C12_ClosureIdempotent ==
  (last.op \in {"closure", "closure_done"} /\ last.again) =>
    /\ last.op = "closure_done"
    /\ ~last.ret
    /\ tables[ta].fds = last.pre

\* a second call has returned after a first call that inserted FDs
C12_Witness ==
  /\ last.op = "closure_done"
  /\ last.again
  /\ last.first_ret
\* f1 and f2 are distinct FDs of m and the lhs of f2 is within the rhs of f1
Chained(m, k1, k2) == m[k1] # m[k2] /\ m[k2].lhs \subseteq m[k1].rhs

\* the entry keyed by the sorted lhs of f1 holds the rhs of f1 and of f2,
\* except the fields of f1's lhs
HoldsBoth(m, pre, k1, k2) ==
  /\ SortedVec(pre[k1].lhs) \in DOMAIN m
  /\ ((pre[k1].rhs \cup pre[k2].rhs) \ pre[k1].lhs) \subseteq m[SortedVec(pre[k1].lhs)].rhs

\* C13: when closure() returns, for every two distinct FDs f1, f2 stored
\* before the call with f2.lhs within f1.rhs, the entry keyed by sorted(f1.lhs)
\* has an rhs with every field of f1.rhs and of f2.rhs that is not in f1.lhs
C13_ClosureTransitive ==
  last.op = "closure_done" =>
    \A k1, k2 \in DOMAIN last.pre :
      Chained(last.pre, k1, k2) => HoldsBoth(tables[ta].fds, last.pre, k1, k2)

\* the same, for an f1 whose lhs and rhs are disjoint
C13_DisjointFirst ==
  last.op = "closure_done" =>
    \A k1, k2 \in DOMAIN last.pre :
      (Chained(last.pre, k1, k2) /\ last.pre[k1].lhs \cap last.pre[k1].rhs = {})
        => HoldsBoth(tables[ta].fds, last.pre, k1, k2)
\* the attribute closure of X under the FDs of m: the largest set reachable
\* from X by applying FDs whose lhs is inside the set
RECURSIVE AttrClosure(_, _)
AttrClosure(m, X) ==
  LET Y == X \cup UNION {m[k].rhs : k \in {j \in DOMAIN m : m[j].lhs \subseteq X}} IN
  IF Y = X THEN X ELSE AttrClosure(m, Y)

\* C14: when closure() returns, the rhs of every stored FD with lhs X has
\* every field outside X of the attribute closure of X under the stored FDs
C14_ClosureComplete ==
  last.op = "closure_done" =>
    \A k \in DOMAIN tables[ta].fds :
      (AttrClosure(tables[ta].fds, tables[ta].fds[k].lhs) \ tables[ta].fds[k].lhs)
        \subseteq tables[ta].fds[k].rhs

-----------------------------------------------------------------------------
(* Properties of add_fd *)

\* the rhs stored under the key before the call
OldRhs(t, key) == IF key \in DOMAIN t.fds THEN t.fds[key].rhs ELSE {}

\* one entry has the given lhs, it is keyed by the sorted lhs, and its rhs
\* contains the fields of must
MergedEntry(t, lhs, must) ==
  /\ SortedVec(lhs) \in DOMAIN t.fds
  /\ \A k \in DOMAIN t.fds : (k = SortedVec(lhs) \/ t.fds[k].lhs = lhs) =>
       (k = SortedVec(lhs) /\ t.fds[k].lhs = lhs)
  /\ must \subseteq t.fds[SortedVec(lhs)].rhs

\* C15 as stated: after add_fd(lhs, rhs) the one entry keyed by the sorted lhs
\* has an rhs with every field of the given rhs and every field of the rhs
\* stored under that key before the call
C15_AddFdMerges ==
  last.op = "add_fd" =>
    MergedEntry(tables[last.table], last.lhs,
                last.rhs \cup OldRhs(last.pre, SortedVec(last.lhs)))

\* C15, amended: ... every such field that is not a field of the lhs
C15_AddFdMergesOutsideLhs ==
  last.op = "add_fd" =>
    MergedEntry(tables[last.table], last.lhs,
                (last.rhs \cup OldRhs(last.pre, SortedVec(last.lhs))) \ last.lhs)

\* add_fd has merged a given rhs and a stored rhs neither of which is within
\* the other
C15_Witness ==
  /\ last.op = "add_fd"
  /\ SortedVec(last.lhs) \in DOMAIN last.pre.fds
  /\ ~(last.rhs \subseteq OldRhs(last.pre, SortedVec(last.lhs)))
  /\ ~(OldRhs(last.pre, SortedVec(last.lhs)) \subseteq last.rhs)

-----------------------------------------------------------------------------
(* Properties of the IND closure *)

\* C16: every call of ind_closure() returns: once its loop has started on a
\* schema whose INDs are valid, it reaches a pass that stages neither
\* additions nor deletions
C16_IndClosureTerminates == (pc \in {"ind_closure", "ind_pass"}) ~> (pc = "idle")

\* C17: a call of ind_closure() made immediately after ind_closure() has
\* returned returns false and leaves every bucket as it found it
C17_IndClosureIdempotent ==
  (last.op \in {"ind_closure", "ind_closure_done"} /\ last.again) =>
    /\ last.op = "ind_closure_done"
    /\ ~last.ret
    /\ inds = last.pre.inds

\* a second call has returned after a first call that changed the INDs
C17_Witness ==
  /\ last.op = "ind_closure_done"
  /\ last.again
  /\ last.first_ret

\* i1 = A(X) <= B(Y) and i2 = B(Y) <= C(Z) with A # C
Composable(i1, i2) ==
  /\ i2.left_table = i1.right_table
  /\ i2.left_fields = i1.right_fields
  /\ i1.left_table # i2.right_table

\* C18: when ind_closure() returns, for every A(X) <= B(Y) and B(Y) <= C(Z)
\* with A # C that the schema held before the call, contains_ind holds for
\* A(X) <= C(Z)
C18_IndClosureTransitive ==
  last.op = "ind_closure_done" =>
    \A i1, i2 \in AllInds(last.pre.inds) :
      Composable(i1, i2) =>
        contains_ind(inds, Ind(i1.left_table, i1.left_fields, i2.right_table, i2.right_fields))

\* the same on schemas none of whose buckets held more than one IND
C18_SingleBuckets ==
  (last.op = "ind_closure_done" /\ \A k \in DOMAIN last.pre.inds : Len(last.pre.inds[k]) <= 1) =>
    \A i1, i2 \in AllInds(last.pre.inds) :
      Composable(i1, i2) =>
        contains_ind(inds, Ind(i1.left_table, i1.left_fields, i2.right_table, i2.right_fields))

\* the tables reachable from the tables of S along the non-empty buckets of is
RECURSIVE ReachableFrom(_, _)
ReachableFrom(is, S) ==
  LET T == S \cup {k[2] : k \in {j \in DOMAIN is : j[1] \in S /\ is[j] # <<>>}} IN
  IF T = S THEN S ELSE ReachableFrom(is, T)

\* C19: during and after ind_closure(), a bucket (L, R) is non-empty only if R
\* is reachable from L along a chain of INDs present before the call
C19_IndClosureSafe ==
  last.op \in {"ind_closure", "ind_closure_done"} =>
    \A k \in DOMAIN inds :
      inds[k] # <<>> => k[2] \in ReachableFrom(last.pre.inds, {k[1]})

\* ind_closure() has returned on a schema that held A <= B and C <= B and
\* held no IND from A or C to the other
C19_Witness ==
  /\ last.op = "ind_closure_done"
  /\ \E A, B, C \in DOMAIN tables :
       /\ A # C
       /\ <<A, B>> \in DOMAIN last.pre.inds
       /\ <<C, B>> \in DOMAIN last.pre.inds
       /\ <<A, C>> \notin DOMAIN last.pre.inds
       /\ <<C, A>> \notin DOMAIN last.pre.inds

\* the left fields of j are implied by those of i under the FDs of the left table
LeftImplied(ts, i, j) ==
  Range(j.left_fields) \subseteq AttrClosure(ts[i.left_table].fds, Range(i.left_fields))

\* bucket k holds exactly two INDs, with disjoint left lists and disjoint
\* right lists, that do not imply each other's left fields
MergeablePair(ts, is, k) ==
  /\ k \in DOMAIN is
  /\ Len(is[k]) = 2
  /\ Range(is[k][1].left_fields) \cap Range(is[k][2].left_fields) = {}
  /\ Range(is[k][1].right_fields) \cap Range(is[k][2].right_fields) = {}
  /\ ~(LeftImplied(ts, is[k][1], is[k][2]) /\ LeftImplied(ts, is[k][2], is[k][1]))

\* C20: when ind_closure() returns, a bucket that held such a pair before the
\* call holds exactly one IND, whose field pairs are those of the two INDs and
\* whose left list is sorted
C20_RuleAMerges ==
  last.op = "ind_closure_done" =>
    \A k \in DOMAIN last.pre.inds :
      MergeablePair(last.pre.tables, last.pre.inds, k) =>
        /\ k \in DOMAIN inds
        /\ Len(inds[k]) = 1
        /\ Pairs(inds[k][1]) = Pairs(last.pre.inds[k][1]) \cup Pairs(last.pre.inds[k][2])
        /\ inds[k][1].left_fields = SortedVec(Range(inds[k][1].left_fields))

-----------------------------------------------------------------------------
(* Properties of the operations on the INDs of the schema *)

\* some IND of bucket (i.left_table, i.right_table) of is dominates i
Dominated(is, i) ==
  \E j \in Range(Bucket(is, <<i.left_table, i.right_table>>)) : is_subset(i, j)

\* C21: add_ind(ind) returns true exactly when no IND of the bucket of ind
\* dominates it; it then appends ind to that bucket and changes nothing else;
\* when it returns false the INDs and the tables are unchanged
C21_AddInd ==
  last.op = "add_ind" =>
    LET k == <<last.ind.left_table, last.ind.right_table>> IN
    /\ last.ret <=> ~Dominated(last.pre.inds, last.ind)
    /\ tables = last.pre.tables
    /\ last.ret =>
         /\ Bucket(inds, k) = Append(Bucket(last.pre.inds, k), last.ind)
         /\ \A j \in (DOMAIN inds \cup DOMAIN last.pre.inds) \ {k} :
              Bucket(inds, j) = Bucket(last.pre.inds, j)
    /\ ~last.ret => inds = last.pre.inds

\* add_ind has refused an IND that another, different IND dominates
C21_Witness ==
  /\ last.op = "add_ind"
  /\ ~last.ret
  /\ last.ind \notin AllInds(last.pre.inds)

-----------------------------------------------------------------------------
(* Properties of the FDs of the schema *)

\* every FD stored in a table of ts mentions fields of that table only
FdsOverOwnFields(ts) ==
  \A n \in DOMAIN ts : \A k \in DOMAIN ts[n].fds :
    (ts[n].fds[k].lhs \cup ts[n].fds[k].rhs) \subseteq FieldNames(ts[n])

\* C22: every stored FD mentions only fields of its own table, in the loaded
\* schema and after Table::copy_fds, Schema::copy_fds, normalize and subsume
C22_FdsOverOwnFields == FdsOverOwnFields(tables)

\* Table::copy_fds has added, to a table that lacks some of its fields, an FD
\* of the other table, cut down to the fields the table has
C22_Witness ==
  /\ last.op = "table_copy_fds"
  /\ tables # last.pre.tables
  /\ \E k \in DOMAIN last.pre.tables[last.src].fds :
       LET fd == last.pre.tables[last.src].fds[k]
           F == FieldNames(tables[last.dst])
       IN /\ ~((fd.lhs \cup fd.rhs) \subseteq F)
          /\ fd.lhs \cap F # {}
          /\ fd.rhs \cap F # {}
          /\ ~contains_fd(last.pre.tables[last.dst], [lhs |-> fd.lhs \cap F, rhs |-> fd.rhs \cap F])

\* the q-th smallest element of the set of numbers P
NthOf(P, q) == CHOOSE p \in P : Cardinality({r \in P : r <= p}) = q

\* the positions of i whose left field is in the left table and whose right
\* field is in the right table
KeptPositions(ts, i) ==
  {p \in 1..Len(i.left_fields) :
     /\ i.left_fields[p] \in FieldNames(ts[i.left_table])
     /\ i.right_fields[p] \in FieldNames(ts[i.right_table])}

\* i cut down to the positions of P, in their order
Restricted(i, P) ==
  Ind(i.left_table, [q \in 1..Cardinality(P) |-> i.left_fields[NthOf(P, q)]],
      i.right_table, [q \in 1..Cardinality(P) |-> i.right_fields[NthOf(P, q)]])

\* the bucket b with every IND cut down to its kept positions, without the
\* INDs that keep none
ExpectedBucket(ts, b) ==
  LET Sv == {p \in DOMAIN b : KeptPositions(ts, b[p]) # {}} IN
  [q \in 1..Cardinality(Sv) |->
     Restricted(b[NthOf(Sv, q)], KeptPositions(ts, b[NthOf(Sv, q)]))]

\* C23: prune_inds() drops every bucket one of whose tables is missing; in
\* the other buckets every IND keeps exactly the positions whose left field
\* is in the left table and whose right field is in the right table, in their
\* order and still paired, and an IND left with no position is removed
C23_PruneInds ==
  last.op = "prune_inds" =>
    \A k \in DOMAIN inds \cup DOMAIN last.pre.inds :
      Bucket(inds, k) =
        IF k[1] \in DOMAIN tables /\ k[2] \in DOMAIN tables
        THEN ExpectedBucket(tables, Bucket(last.pre.inds, k))
        ELSE <<>>

\* prune_inds has dropped a bucket of a missing table, cut an IND down to
\* fewer positions and removed an IND left with none
C23_Witness ==
  /\ last.op = "prune_inds"
  /\ \E k \in DOMAIN last.pre.inds : k[1] \notin DOMAIN tables \/ k[2] \notin DOMAIN tables
  /\ \E k \in DOMAIN last.pre.inds :
       /\ k[1] \in DOMAIN tables /\ k[2] \in DOMAIN tables
       /\ \E p \in DOMAIN last.pre.inds[k] :
            LET P == KeptPositions(tables, last.pre.inds[k][p]) IN
            P # {} /\ Cardinality(P) < Len(last.pre.inds[k][p].left_fields)

\* prune_inds has removed an IND left with no position from a bucket that
\* keeps another IND
C23_WitnessEmptied ==
  /\ last.op = "prune_inds"
  /\ \E k \in DOMAIN inds :
       \E p \in DOMAIN last.pre.inds[k] : KeptPositions(tables, last.pre.inds[k][p]) = {}

\* the copies copy_inds(src, dst) is to make of the INDs of is: the INDs with
\* src on a side whose list shares a field with dst, with dst in its place
CopiesToMake(ts, is, src, dst) ==
  {Ind(dst, i.left_fields, i.right_table, i.right_fields) :
     i \in {j \in AllInds(is) :
              j.left_table = src /\ Range(j.left_fields) \cap FieldNames(ts[dst]) # {}}}
  \cup
  {Ind(i.left_table, i.left_fields, dst, i.right_fields) :
     i \in {j \in AllInds(is) :
              j.right_table = src /\ Range(j.right_fields) \cap FieldNames(ts[dst]) # {}}}

\* C24: after copy_inds(src, dst) the schema contains, for every IND with src
\* on a side whose list shares a field with dst, the IND with dst in place of
\* src, restricted to the positions whose fields exist in both of its tables;
\* the INDs stored before are still stored and no table is modified
C24_CopyInds ==
  last.op = "copy_inds" =>
    /\ \A n \in CopiesToMake(last.pre.tables, last.pre.inds, last.src, last.dst) :
         KeptPositions(tables, n) # {} =>
           contains_ind(inds, Restricted(n, KeptPositions(tables, n)))
    /\ \A i \in AllInds(last.pre.inds) :
         (i.left_table = last.src \/ i.right_table = last.src) =>
           i \in Range(Bucket(inds, <<i.left_table, i.right_table>>))
    /\ tables = last.pre.tables

\* copy_inds has made a copy on the left side and a copy on the right side,
\* one of them with fewer positions than the IND it was made from
C24_Witness ==
  /\ last.op = "copy_inds"
  /\ LET C == CopiesToMake(last.pre.tables, last.pre.inds, last.src, last.dst) IN
     /\ \E n \in C : n.left_table = last.dst /\ ~contains_ind(last.pre.inds, n)
     /\ \E n \in C : n.right_table = last.dst /\ ~contains_ind(last.pre.inds, n)
     /\ \E n \in C :
          LET P == KeptPositions(tables, n) IN
          P # {} /\ Cardinality(P) < Len(n.left_fields)

\* the right table of i has an FD keyed exactly by the left fields of i whose
\* rhs contains every right field of i
KeyedByLeft(ts, i) ==
  \E k \in DOMAIN ts[i.right_table].fds :
    /\ k = i.left_fields
    /\ \A p \in DOMAIN i.right_fields : i.right_fields[p] \in ts[i.right_table].fds[k].rhs

IsForeignKey(ts, i) ==
  LET r == ts[i.right_table] IN
  /\ Range(i.right_fields) = key_fields(r)
  /\ \E k \in DOMAIN r.fds :
       r.fds[k].lhs = key_fields(r) /\ r.fds[k].rhs = NonKeyFields(r)

\* C26: retain_fk_inds() keeps every IND whose right fields are exactly the
\* primary key of the right table, when that table holds the FD from its key
\* to its other fields, whatever the names of the left fields
C26_ForeignKeysKept ==
  last.op = "retain_fk_inds" =>
    \A i \in AllInds(last.pre.inds) :
      IsForeignKey(tables, i) => i \in AllInds(inds)

\* retain_fk_inds() removes every IND whose left fields and right fields are
\* the primary key of the right table, under the same names
C26_SameNameKeysRemoved ==
  last.op = "retain_fk_inds" =>
    \A i \in AllInds(last.pre.inds) :
      (IsForeignKey(tables, i) /\ i.left_fields = i.right_fields) => i \notin AllInds(inds)

\* retain_fk_inds has met a foreign key whose fields have the names of the key
C26_SameNameWitness ==
  /\ last.op = "retain_fk_inds"
  /\ \E i \in AllInds(last.pre.inds) :
       IsForeignKey(tables, i) /\ i.left_fields = i.right_fields

-----------------------------------------------------------------------------
(* Properties of minimize_fds *)

\* the FDs A -> B of t for which B -> A is stored too and |A| > |B|
LongerOfAPair(t) ==
  {k \in DOMAIN t.fds :
     /\ Cardinality(t.fds[k].lhs) > Cardinality(t.fds[k].rhs)
     /\ \E r \in DOMAIN t.fds :
          t.fds[r].lhs = t.fds[k].rhs /\ t.fds[r].rhs = t.fds[k].lhs}

\* C27: minimize_fds() removes every stored FD A -> B for which B -> A is
\* stored as well and |A| > |B|, whatever the size of B, and removes no other
\* FD: the FD of such a pair with the shorter lhs is kept
C27_MinimizeFds ==
  last.op = "minimize_fds" =>
    /\ DOMAIN tables[ta].fds = (DOMAIN last.pre.fds) \ LongerOfAPair(last.pre)
    /\ \A k \in DOMAIN tables[ta].fds : tables[ta].fds[k] = last.pre.fds[k]

\* minimize_fds() removes the FDs A -> B of such a pair when B is one field,
\* and removes no FD outside such pairs
C27_SingleFieldRhs ==
  last.op = "minimize_fds" =>
    /\ \A k \in LongerOfAPair(last.pre) :
         Cardinality(last.pre.fds[k].rhs) = 1 => k \notin DOMAIN tables[ta].fds
    /\ (DOMAIN last.pre.fds) \ LongerOfAPair(last.pre) \subseteq DOMAIN tables[ta].fds
    /\ \A k \in DOMAIN tables[ta].fds : tables[ta].fds[k] = last.pre.fds[k]

\* minimize_fds has removed an FD whose rhs is one field
C27_SingleFieldWitness ==
  /\ last.op = "minimize_fds"
  /\ \E k \in LongerOfAPair(last.pre) :
       Cardinality(last.pre.fds[k].rhs) = 1 /\ k \notin DOMAIN tables[ta].fds

-----------------------------------------------------------------------------
(* Properties of IND::reverse *)

StrictlySorted(v) == \A p, q \in DOMAIN v : p < q => NameLess(v[p], v[q])

\* the left list is sorted and no list repeats a field
Canonical(i) == StrictlySorted(i.left_fields) /\ NoDup(i.right_fields)

\* C28: on an IND whose left list is sorted and whose lists have no
\* duplicates, reverse gives the IND with the tables swapped, a sorted left
\* list and exactly the field pairs of the IND with their sides swapped, and
\* reversing the result gives the IND back
C28_ReverseInvolution ==
  last.op = "reverse" =>
    /\ Canonical(last.ind) =>
         /\ last.rev.left_table = last.ind.right_table
         /\ last.rev.right_table = last.ind.left_table
         /\ StrictlySorted(last.rev.left_fields)
         /\ Len(last.rev.left_fields) = Len(last.ind.left_fields)
         /\ Len(last.rev.right_fields) = Len(last.ind.left_fields)
         /\ Pairs(last.rev) = {<<q[2], q[1]>> : q \in Pairs(last.ind)}
    /\ (last.twice /\ Canonical(last.orig)) => last.rev = last.orig

\* an IND of several fields whose right list is not sorted has been reversed
\* twice
C28_Witness ==
  /\ last.op = "reverse"
  /\ last.twice
  /\ Canonical(last.orig)
  /\ Len(last.orig.left_fields) > 1
  /\ ~StrictlySorted(last.orig.right_fields)

\* an IND whose left list is not sorted does not come back
C28_UnsortedWitness ==
  /\ last.op = "reverse"
  /\ last.twice
  /\ NoDup(last.orig.left_fields) /\ NoDup(last.orig.right_fields)
  /\ last.rev # last.orig

-----------------------------------------------------------------------------
(* Properties of subsume as a whole *)

RECURSIVE SumOfFields(_, _)
SumOfFields(ts, D) ==
  IF D = {} THEN 0
  ELSE LET n == CHOOSE m \in D : TRUE IN Len(ts[n].fields) + SumOfFields(ts, D \ {n})

\* the number of fields of all tables plus the number of tables
Measure(ts) == SumOfFields(ts, DOMAIN ts) + Cardinality(DOMAIN ts)

\* C29: a call of subsume() that returns true has made the number of fields
\* plus the number of tables strictly smaller; a call that returns false has
\* left the set of tables and the fields of every table as they were
C29_SubsumeDecreases ==
  last.op = "subsume_done" =>
    IF last.ret
    THEN Measure(tables) < Measure(last.pre.tables)
    ELSE /\ DOMAIN tables = DOMAIN last.pre.tables
         /\ \A n \in DOMAIN tables : tables[n].fields = last.pre.tables[n].fields

\* subsume has returned true after removing fields, after removing a table
\* and after merging two tables
C29_Witness ==
  /\ last.op = "subsume_done"
  /\ last.ret
  /\ last.merged # <<>>

C29_WitnessFields ==
  /\ last.op = "subsume_done"
  /\ last.ret
  /\ last.changed1
  /\ last.removed = {}
  /\ last.merged = <<>>

C29_WitnessTables ==
  /\ last.op = "subsume_done"
  /\ last.ret
  /\ last.removed # {}

C29_WitnessFalse ==
  /\ last.op = "subsume_done"
  /\ ~last.ret
  /\ last.pre.inds # EmptyMap

\* the schemas the stage-1 loop can end with, over the orders in which the
\* buckets can be visited in each of its iterations
RECURSIVE Stage1Outcomes(_)
Stage1Outcomes(sc) ==
  IF ToRemove(sc.tables, sc.inds) = {}
  THEN {[tables |-> sc.tables, inds |-> prune_inds(sc.tables, sc.inds)]}
  ELSE UNION {Stage1Outcomes([tables |-> RemoveFromTable(sc.tables, i),
                              inds |-> prune_inds(RemoveFromTable(sc.tables, i), sc.inds)]) :
                i \in ToRemove(sc.tables, sc.inds)}

\* the schema after stage 2
AfterStage2(sc) ==
  LET rem == Stage2Remove(sc.tables, sc.inds) IN
  [tables |-> RemoveTables(sc.tables, rem),
   inds |-> IF rem # {} THEN prune_inds(RemoveTables(sc.tables, rem), sc.inds) ELSE sc.inds]

\* the schemas a call of subsume() on sc can return with
SubsumeOutcomes(sc) ==
  UNION {{[tables |-> r.tables, inds |-> r.inds] :
            r \in Stage3(AfterStage2(s1).tables, AfterStage2(s1).inds)} :
           s1 \in Stage1Outcomes(sc)}

\* the tables with their fields, and the INDs, of a schema
Outcome(sc) ==
  [tables |-> [n \in DOMAIN sc.tables |-> FieldNames(sc.tables[n])],
   inds |-> AllInds(sc.inds)]

\* C30: the tables, their fields and the INDs after subsume() are the same
\* whatever the order in which the buckets are visited
C30_SubsumeDeterministic ==
  last.op = "subsume_done" =>
    \A o \in SubsumeOutcomes(last.pre) : Outcome(o) = Outcome(Schema)

\* the same on schemas whose INDs are all in one bucket
C30_SingleBucket ==
  (last.op = "subsume_done" /\ Cardinality(DOMAIN last.pre.inds) = 1) =>
    \A o \in SubsumeOutcomes(last.pre) : Outcome(o) = Outcome(Schema)

\* subsume has removed fields on a schema whose INDs are all in one bucket
C30_SingleBucketWitness ==
  /\ last.op = "subsume_done"
  /\ Cardinality(DOMAIN last.pre.inds) = 1
  /\ last.ret

-----------------------------------------------------------------------------
(* Properties of the loading of the input file *)

\* the FD line names a table or a field that is not declared
FdLineMissing(ts, d) ==
  \/ d.table \notin DOMAIN ts
  \/ ~(d.lhs \cup d.rhs \subseteq FieldNames(ts[d.table]))

\* the IND line names a table or a field that is not declared
IndLineMissing(ts, d) ==
  \/ d.left_table \notin DOMAIN ts
  \/ d.right_table \notin DOMAIN ts
  \/ ~(Range(d.left_fields) \subseteq FieldNames(ts[d.left_table]))
  \/ ~(Range(d.right_fields) \subseteq FieldNames(ts[d.right_table]))

\* C31: an FD or IND line that names an undeclared table or field makes the
\* run fail, unless --ignore-missing is set: the line is then skipped and the
\* schema is as it was
C31_MissingFails ==
  /\ (last.op = "load_fd" /\ FdLineMissing(last.pre.tables, last.fd)) =>
       IF last.ignore_missing THEN Schema = last.pre ELSE pc = "failed"
  /\ (last.op = "load_ind" /\ IndLineMissing(last.pre.tables, last.ind)) =>
       IF last.ignore_missing THEN Schema = last.pre ELSE pc = "failed"

\* the same for the FD lines that name an undeclared table, and for the IND
\* lines that do when --ignore-missing is set
C31_MissingTable ==
  /\ (last.op = "load_fd" /\ last.fd.table \notin DOMAIN last.pre.tables) =>
       IF last.ignore_missing THEN Schema = last.pre ELSE pc = "failed"
  /\ (/\ last.op = "load_ind"
      /\ last.ignore_missing
      /\ (last.ind.left_table \notin DOMAIN tables \/ last.ind.right_table \notin DOMAIN tables)) =>
       Schema = last.pre

\* a line naming an undeclared table has been read
C31_MissingTableWitness ==
  /\ last.op = "load_fd"
  /\ last.fd.table \notin DOMAIN last.pre.tables
  /\ pc = "failed"

\* with --ignore-missing, an FD of a declared table is stored with a field
\* that the table does not have
C31_UndeclaredFieldStored ==
  /\ last.op = "load_fd"
  /\ last.ignore_missing
  /\ \E n \in DOMAIN tables : \E k \in DOMAIN tables[n].fds :
       ~(tables[n].fds[k].lhs \cup tables[n].fds[k].rhs \subseteq FieldNames(tables[n]))

-----------------------------------------------------------------------------
(* Properties of subsume: BCNF, the tables removed, the INDs of merged tables *)

AllBcnf(ts) == \A n \in DOMAIN ts : Violators(ts[n]) = {}

C32_WitnessFields ==
  /\ last.op = "subsume_done"
  /\ AllBcnf(last.pre.tables)
  /\ last.changed1
  /\ \E n \in DOMAIN tables \cap DOMAIN last.pre.tables :
       /\ Len(tables[n].fields) < Len(last.pre.tables[n].fields)
       /\ DOMAIN tables[n].fds # {}

\* stage 2 removes the left table of i: the left fields of i cover the table
\* and the reverse of i is contained
RemovedBecauseOf(sc, i) ==
  /\ i.left_table # i.right_table
  /\ FieldNames(sc.tables[i.left_table]) \subseteq Range(i.left_fields)
  /\ \E j \in AllInds(sc.inds) :
       /\ j.left_table = i.right_table /\ j.right_table = i.left_table
       /\ \A p \in DOMAIN i.left_fields : \E q \in DOMAIN j.left_fields :
            j.left_fields[q] = i.right_fields[p] /\ j.right_fields[q] = i.left_fields[p]

\* C33: when stage 2 of subsume() removes the left table of an IND whose
\* reverse is present, the right table of that IND is still in the schema at
\* the end of stage 2
C33_OneSideKept ==
  last.op = "tables_done" =>
    \A i \in AllInds(last.at2.inds) :
      (RemovedBecauseOf(last.at2, i) /\ i.left_table \notin DOMAIN tables) =>
        i.right_table \in DOMAIN tables

\* the same when only one direction of the pair covers its left table
C33_OneDirection ==
  last.op = "tables_done" =>
    \A i \in AllInds(last.at2.inds) :
      (/\ RemovedBecauseOf(last.at2, i)
       /\ i.left_table \notin DOMAIN tables
       /\ ~\E j \in AllInds(last.at2.inds) :
             j.left_table = i.right_table /\ RemovedBecauseOf(last.at2, j)) =>
        i.right_table \in DOMAIN tables

\* stage 2 has removed the left table of an IND and kept its right table
C33_KeptWitness ==
  /\ last.op = "tables_done"
  /\ \E i \in AllInds(last.at2.inds) :
       /\ RemovedBecauseOf(last.at2, i)
       /\ i.left_table \notin DOMAIN tables
       /\ i.right_table \in DOMAIN tables

-----------------------------------------------------------------------------
(* Properties of normalize: the attributes and the tables left alone *)

AllFieldNames(ts) == UNION {FieldNames(ts[n]) : n \in DOMAIN ts}

\* no decomposition of the call made a table under a name that was in use
NoNameReused ==
  \A d \in last.decs :
    /\ BaseName(d.table) \notin DOMAIN last.pre.tables
    /\ ExtName(d.table) \notin DOMAIN last.pre.tables

\* C34: normalize() loses no attribute.  The fields of a decomposed table
\* are the union of the fields of its two products, and, when no
\* decomposition made a table under a name already in use, the union of the
\* fields of all tables is the same after normalize() as before
C34_NoAttributeLost ==
  /\ last.op = "decompose" =>
       FieldNames(last.parent) =
         FieldNames(tables[BaseName(last.table)]) \cup FieldNames(tables[ExtName(last.table)])
  /\ (last.op = "normalize_done" /\ NoNameReused) =>
       AllFieldNames(tables) = AllFieldNames(last.pre.tables)

\* normalize has returned after decomposing a table on an FD whose sides
\* share a field
C34_Witness ==
  /\ last.op = "normalize_done"
  /\ NoNameReused
  /\ \E d \in last.decs : d.vfd.lhs \cap d.vfd.rhs # {}

\* C35: normalize() leaves every table that is in BCNF untouched: it is in
\* the schema afterwards under its name with the same fields, key flags and
\* FDs, whatever the names of the tables that are decomposed
C35_BcnfTablesUntouched ==
  last.op = "normalize_done" =>
    \A n \in DOMAIN last.pre.tables :
      is_bcnf(last.pre.tables[n]) => (n \in DOMAIN tables /\ tables[n] = last.pre.tables[n])

\* when no decomposition made a table under a name already in use, the tables
\* in BCNF are untouched
C35_DistinctNames ==
  (last.op = "normalize_done" /\ NoNameReused) =>
    \A n \in DOMAIN last.pre.tables :
      is_bcnf(last.pre.tables[n]) => (n \in DOMAIN tables /\ tables[n] = last.pre.tables[n])

\* normalize has decomposed a table next to a table in BCNF whose name is not
\* the name of a product
C35_DistinctNamesWitness ==
  /\ last.op = "normalize_done"
  /\ last.decs # {}
  /\ NoNameReused
  /\ \E n \in DOMAIN last.pre.tables : is_bcnf(last.pre.tables[n])

------------------------------------------------------------------------------
(* Properties of ind_closure: the INDs Rule A stages, the INDs that are kept *)

\* the (i1, i2, new IND) triples Rule A stages on the stored INDs, over every
\* bucket and every order in which the FDs of the left table are visited
StagedByRuleA ==
  UNION {UNION {{<<inds[k][q[1]], inds[k][q[2]], RuleANew(inds[k][q[1]], inds[k][q[2]])>> :
                   q \in RuleAStaged(inds[k], af)} :
                  af \in AllFieldsChoices(tables, inds[k], 1)} :
           k \in DOMAIN inds}

\* a pass of the loop of ind_closure() is run from this state
PassStartsHere == pc \in {"idle", "ind_pass"}

\* C36: Rule A invents no field correspondence: every positional (left field,
\* right field) pair of an IND staged by Rule A from i1 and i2 is a
\* positional pair of i1 or of i2
C36_RuleANoNewPair ==
  PassStartsHere =>
    \A s \in StagedByRuleA : Pairs(s[3]) \subseteq Pairs(s[1]) \cup Pairs(s[2])

\* when the fields i2 adds on the left are those of the positions whose right
\* field it adds on the right, the staged IND has the pairs of i1 and of i2
AddsAligned(i1, i2) ==
  {p \in DOMAIN i2.left_fields : ~Contains(i1.left_fields, i2.left_fields[p])}
    = {p \in DOMAIN i2.right_fields : ~Contains(i1.right_fields, i2.right_fields[p])}

C36_AlignedPairs ==
  PassStartsHere =>
    \A s \in StagedByRuleA :
      AddsAligned(s[1], s[2]) => Pairs(s[3]) \subseteq Pairs(s[1]) \cup Pairs(s[2])

\* Rule A stages an IND from two INDs whose additions are aligned
C36_AlignedWitness ==
  /\ PassStartsHere
  /\ \E s \in StagedByRuleA : AddsAligned(s[1], s[2])

\* C37: ind_closure() loses no dependency: every IND contained in the schema
\* before the call (dominated by a stored IND) is contained after it
C37_ClosureKeepsInds ==
  last.op = "ind_closure_done" =>
    \A i \in AllInds(last.pre.inds) : contains_ind(inds, i)

\* a call in which no pass deleted an IND keeps every IND
NothingDeleted ==
  \A k \in DOMAIN last.pre.inds :
    k \in DOMAIN inds /\ Len(inds[k]) >= Len(last.pre.inds[k])

C37_KeptWhenNothingDeleted ==
  (last.op = "ind_closure_done" /\ NothingDeleted) =>
    \A i \in AllInds(last.pre.inds) : contains_ind(inds, i)

\* ind_closure has returned true and no bucket is shorter
C37_AddedWitness ==
  /\ last.op = "ind_closure_done"
  /\ last.ret
  /\ NothingDeleted

------------------------------------------------------------------------------
(* Properties of the INDs around a merge *)

SelfInds(is) == {i \in AllInds(is) : i.left_table = i.right_table}

\* C38: from a schema with no self-IND, no state reached by ind_closure(),
\* normalize() and subsume() calls holds a self-IND, and the assertion
\* left_table != right_table of Rule A does not fail
C38_NoSelfInd ==
  /\ SelfInds(inds) = {}
  /\ pc # "panic"

\* the assertion of Rule A alone
C38_AssertHolds == pc # "panic"

\* the INDs that can have started the merge m of a subsume call
MergingInds(m) ==
  {i \in Range(Bucket(last.at3.inds, <<m.old1, m.old2>>)) :
     /\ MergeTest(last.at3.tables, last.at3.inds, i)
     /\ m.table \in MergedTables(last.at3.tables, i)}

\* the INDs between a third table and one of the two tables merged into m
ThirdInds(is, m) ==
  {i \in AllInds(is) :
     Cardinality({i.left_table, i.right_table} \cap {m.old1, m.old2}) = 1}

\* the fields fs of table t as they are named in the merged table: those of
\* the right table go through the rename map nm
Through(nm, m, t, fs) ==
  IF t = m.old2
  THEN [p \in DOMAIN fs |-> IF fs[p] \in DOMAIN nm THEN nm[fs[p]] ELSE fs[p]]
  ELSE fs

MergedSide(m, t) == IF t \in {m.old1, m.old2} THEN m.name ELSE t

CorrespondingInd(j, m, nm) ==
  Ind(MergedSide(m, j.left_table), Through(nm, m, j.left_table, j.left_fields),
      MergedSide(m, j.right_table), Through(nm, m, j.right_table, j.right_fields))

\* C39: merging keeps the dependencies of both merged tables: for every IND
\* that related a third table to L or to R before the merge, the schema
\* contains the corresponding IND between that table and the merged table,
\* the fields of R named through the rename map
C39_MergeKeepsInds ==
  last.op = "subsume_done" =>
    \A x \in DOMAIN last.merged :
      \E i \in MergingInds(last.merged[x]) :
        \A j \in ThirdInds(last.at3.inds, last.merged[x]) :
          contains_ind(inds, CorrespondingInd(j, last.merged[x], RightNames(last.at3.tables, i)))

\* the INDs whose fields have the same names in the merged table
KeepsNames(j, m, nm) == CorrespondingInd(j, m, nm) = CorrespondingInd(j, m, EmptyMap)

C39_SameNamesKept ==
  last.op = "subsume_done" =>
    \A x \in DOMAIN last.merged :
      \E i \in MergingInds(last.merged[x]) :
        \A j \in ThirdInds(last.at3.inds, last.merged[x]) :
          KeepsNames(j, last.merged[x], RightNames(last.at3.tables, i)) =>
            contains_ind(inds, CorrespondingInd(j, last.merged[x], RightNames(last.at3.tables, i)))

\* subsume has merged two tables, one of which had an IND with a third table
\* on fields that keep their names
C39_SameNamesWitness ==
  /\ last.op = "subsume_done"
  /\ \E x \in DOMAIN last.merged :
       \E i \in MergingInds(last.merged[x]) :
         \E j \in ThirdInds(last.at3.inds, last.merged[x]) :
           /\ KeepsNames(j, last.merged[x], RightNames(last.at3.tables, i))
           /\ j.left_table = last.merged[x].old2 \/ j.right_table = last.merged[x].old2

====
